---- MODULE Spec2Model ----
(***************************************************************************)
(* Multi-repository branch/tag reconciliation: the parallel orchestrator   *)
(* (src/automation/go.py) and the sequential variant (src/go.py).          *)
(*                                                                         *)
(* Text (branch names, tag names, versions, patterns) is a sequence of     *)
(* one-character strings, so that lstrip, prefix tests and the other       *)
(* string operations of the code are computed, not assumed.                *)
(***************************************************************************)
EXTENDS Integers, Sequences, FiniteSets, TLC

VARIABLES
    remote,        \* repo name -> state of the remote repository
    mirror,        \* repo name -> state of the local mirror directory
    version,       \* main(): the base version, after normalisation
    release_type,  \* main(): "internal" or "external"
    mainpc,        \* main(): position of the main thread
    pc,            \* repo name -> state of its process_repo task
    branches,      \* repo name -> process_repo's local `branches`
    idx,           \* repo name -> number of branches checked out so far
    at,            \* repo name -> the git command its task is about to run
    listed,        \* repo name -> number of tag listings its task has done
    existing,      \* repo name -> process_repo's local `existing`
    state,         \* repo name -> the RepoState the task returned (or NoState)
    results,       \* main(): the `results` dict, repo name -> RepoState
    collected,     \* main(): futures already yielded by as_completed
    console,       \* main(): the tables and commit logs printed, in order
    logged,        \* main(): repo name -> the console.log line of its future
    logi,          \* main(): index into repos of the commit-log loop
    fnArgs,        \* function-level harness: the inputs of the call
    fnRet          \* function-level harness: the result of the call

vars == <<remote, mirror, version, release_type, mainpc, pc, branches,
          idx, at, listed, existing, state, results, collected, console, logged, logi, fnArgs, fnRet>>

orchVars == <<version, release_type, mainpc, pc, branches, idx, at, listed, existing, state,
              results, collected, console, logged, logi>>

fnVars == <<fnArgs, fnRet>>

----------------------------------------------------------------------------
(* Bounds of the model *)

\* how many entries of the `repos` list take part in a run
NumRepos == 2

\* how many release tags ("v1", "v2", ...) the richest remote carries
MaxTags == 9

\* how many heads a remote of the function-level harness carries at most
MaxHeads == 3

\* how many commits the commit graph has: the side line is longer than the
\* commit log's limit
MaxCommits == 26

(* Program constants *)

\* the recency window: `.splitlines()[:7]` and `count: int = 7`
TagWindow == 7

----------------------------------------------------------------------------
(* Text *)

Digit == {"0", "1", "2", "3", "4", "5", "6", "7", "8", "9"}

\* the printable ASCII characters but the backquote, in ASCII order
AsciiOrder ==
    << " ", "!", "\"", "#", "$", "%", "&", "'", "(", ")", "*", "+", ",",
       "-", ".", "/", "0", "1", "2", "3", "4", "5", "6", "7", "8", "9", ":",
       ";", "<", "=", ">", "?", "@", "A", "B", "C", "D", "E", "F", "G", "H",
       "I", "J", "K", "L", "M", "N", "O", "P", "Q", "R", "S", "T", "U", "V",
       "W", "X", "Y", "Z", "[", "\\", "]", "^", "_", "a", "b", "c",
       "d", "e", "f", "g", "h", "i", "j", "k", "l", "m", "n", "o", "p", "q",
       "r", "s", "t", "u", "v", "w", "x", "y", "z", "{", "|", "}", "~" >>

Ord(c) == CHOOSE i \in 1..Len(AsciiOrder) : AsciiOrder[i] = c

\* Python's str < str
RECURSIVE StrLess(_, _)
StrLess(a, b) ==
    IF b = <<>> THEN FALSE
    ELSE IF a = <<>> THEN TRUE
    ELSE IF Head(a) = Head(b) THEN StrLess(Tail(a), Tail(b))
    ELSE Ord(Head(a)) < Ord(Head(b))

startswith(s, p) == Len(p) <= Len(s) /\ SubSeq(s, 1, Len(p)) = p

endswith(s, p) == Len(p) <= Len(s) /\ SubSeq(s, Len(s) - Len(p) + 1, Len(s)) = p

\* Python's `sub in s`
contains(s, sub) ==
    \E i \in 1..(Len(s) - Len(sub) + 1) : SubSeq(s, i, i + Len(sub) - 1) = sub

\* str.lstrip(chars): every leading character of the set is removed
RECURSIVE lstrip(_, _)
lstrip(s, chars) ==
    IF s # <<>> /\ Head(s) \in chars THEN lstrip(Tail(s), chars) ELSE s

\* str.replace(old, new), old not empty: leftmost non-overlapping occurrences
RECURSIVE replace(_, _, _)
replace(s, old, new) ==
    IF s = <<>> THEN <<>>
    ELSE IF startswith(s, old)
         THEN new \o replace(SubSeq(s, Len(old) + 1, Len(s)), old, new)
         ELSE <<Head(s)>> \o replace(Tail(s), old, new)

\* str.split(sep): the pieces between the occurrences of sep
RECURSIVE split(_, _, _)
split(s, sep, cur) ==
    IF s = <<>> THEN <<cur>>
    ELSE IF startswith(s, sep)
         THEN <<cur>> \o split(SubSeq(s, Len(sep) + 1, Len(s)), sep, <<>>)
         ELSE split(Tail(s), sep, Append(cur, Head(s)))

\* str.isdigit()
isdigit(s) == s # <<>> /\ \A i \in 1..Len(s) : s[i] \in Digit

DigitValue(c) == Ord(c) - Ord("0")

\* int(s) of a string of digits
RECURSIVE IntOf(_)
IntOf(s) ==
    IF s = <<>> THEN 0
    ELSE 10 * IntOf(SubSeq(s, 1, Len(s) - 1)) + DigitValue(s[Len(s)])

\* str(n) for 0 <= n <= 99
Str(n) ==
    IF n < 10 THEN <<AsciiOrder[Ord("0") + n]>>
    ELSE <<AsciiOrder[Ord("0") + (n \div 10)], AsciiOrder[Ord("0") + (n % 10)]>>

\* a set of strings as the sequence sorted by StrLess
RECURSIVE SortedSeq(_)
SortedSeq(S) ==
    IF S = {} THEN <<>>
    ELSE LET least == CHOOSE x \in S : \A y \in S \ {x} : StrLess(x, y)
         IN  <<least>> \o SortedSeq(S \ {least})

Range(q) == {q[i] : i \in 1..Len(q)}

NoDuplicates(q) == \A i, j \in 1..Len(q) : i # j => q[i] # q[j]

\* Python's q[:n]
Take(q, n) == SubSeq(q, 1, IF Len(q) < n THEN Len(q) ELSE n)

(* Literals of the code *)

CHORE_PREFIX == <<"c", "h", "o", "r", "e", "_", "r", "e", "l", "e", "a", "s", "e", "-">>

REFS_HEADS == <<"r", "e", "f", "s", "/", "h", "e", "a", "d", "s", "/">>

PAT_V == <<"v">>

PAT_INTERNAL == <<"i", "n", "t", "e", "r", "n", "a", "l", "@">>

PAT_OT3 == <<"o", "t", "3", "@">>

BR_MAIN == <<"m", "a", "i", "n">>

BR_EDGE == <<"e", "d", "g", "e">>

BR_DEVELOP ==
    <<"o", "p", "e", "n", "t", "r", "o", "n", "s", "-", "d", "e", "v", "e", "l", "o", "p">>

----------------------------------------------------------------------------
(* The git world: commits, a remote repository, a local mirror *)

\* the commit graph: commit -> its parent (0: none). 1 <- 2 <- 3 is the line
\* of the primary branch, 4 is a commit on a side line that forks at 2, and
\* 5, 6, ... MaxCommits carry the side line on.
Parent == [c \in 1..MaxCommits |-> IF c = 4 THEN 2 ELSE c - 1]

Commits == 1..Len(Parent)

RECURSIVE Ancestors(_)
Ancestors(c) == IF c = 0 THEN {} ELSE {c} \cup Ancestors(Parent[c])

Reachable(cs) == UNION {Ancestors(c) : c \in cs}

EmptyRefs == [n \in {} |-> 0]

RefCommits(refs) == {refs[n] : n \in DOMAIN refs}

\* no directory at local_path
NoMirror ==
    [kind |-> "absent", remotes |-> EmptyRefs, locals |-> EmptyRefs,
     HEAD |-> <<>>, tags |-> {}, objects |-> {}]

\* an empty directory at local_path, without .git
EmptyDir == [NoMirror EXCEPT !.kind = "dir"]

\* str.strip(chars)
RECURSIVE rstrip(_, _)
rstrip(s, chars) ==
    IF s # <<>> /\ s[Len(s)] \in chars
    THEN rstrip(SubSeq(s, 1, Len(s) - 1), chars) ELSE s

strip(s, chars) == rstrip(lstrip(s, chars), chars)

\* stdout.strip() of an output given as its lines
StripOutput(lines) ==
    IF lines = <<>> THEN <<>>
    ELSE [i \in 1..Len(lines) |->
            LET a == IF i = 1 THEN lstrip(lines[i], {" "}) ELSE lines[i]
            IN  IF i = Len(lines) THEN rstrip(a, {" "}) ELSE a]

\* the commits the refs of a mirror reach: the histories of its branches,
\* of its remote-tracking branches and of its tags
Held(m) ==
    Reachable(RefCommits(m.locals) \cup RefCommits(m.remotes)
                \cup {t.commit : t \in m.tags})

\* a mirror whose object store holds just what its refs reach
Packed(m) ==
    [kind |-> m.kind, remotes |-> m.remotes, locals |-> m.locals, HEAD |-> m.HEAD,
     tags |-> m.tags, objects |-> Held(m)]

\* the object store after the heads of the remote are fetched: nothing
\* leaves the store when a remote-tracking branch moves off a commit
FetchedObjects(m, rem) == m.objects \cup Reachable(RefCommits(rem.heads))

\* tags a fetch brings along: those of the remote whose commit is in the
\* object store once the heads are fetched, and whose name the mirror does
\* not hold yet
FetchedTags(m, rem) ==
    m.tags \cup {t \in rem.tags :
                    /\ t.commit \in FetchedObjects(m, rem)
                    /\ \A u \in m.tags : u.name # t.name}

\* the mirror after a fetch of every head of the remote
Fetched(m, rem) ==
    [m EXCEPT !.remotes = rem.heads @@ m.remotes,
              !.tags = FetchedTags(m, rem),
              !.objects = FetchedObjects(m, rem)]

\* every git operation gives [rc, out, mirror]: the exit status, the lines
\* of stdout, and the mirror afterwards. `net`/`env` is the environment's
\* part: FALSE when the remote is unreachable or the working copy refuses.

git_fail(m) == [rc |-> 128, out |-> <<>>, mirror |-> m]

\* git clone <url> <path>
git_clone(m, rem, net) ==
    IF net /\ m.kind \in {"absent", "dir"}
    THEN [rc |-> 0, out |-> <<>>,
          mirror |-> [kind |-> "repo", remotes |-> rem.heads,
                      locals |-> [n \in {rem.HEAD} |-> rem.heads[rem.HEAD]],
                      HEAD |-> rem.HEAD, tags |-> rem.tags,
                      objects |-> Reachable(RefCommits(rem.heads)
                                              \cup {t.commit : t \in rem.tags})]]
    ELSE git_fail(m)

\* git fetch --all
git_fetch_all(m, rem, net) ==
    IF net /\ m.kind = "repo"
    THEN [rc |-> 0, out |-> <<>>,
          mirror |-> Fetched(m, rem)]
    ELSE git_fail(m)

\* the character sets of git's wildmatch, over printable ASCII
Lower ==
    {"a", "b", "c", "d", "e", "f", "g", "h", "i", "j", "k", "l", "m", "n",
     "o", "p", "q", "r", "s", "t", "u", "v", "w", "x", "y", "z"}

Upper ==
    {"A", "B", "C", "D", "E", "F", "G", "H", "I", "J", "K", "L", "M", "N",
     "O", "P", "Q", "R", "S", "T", "U", "V", "W", "X", "Y", "Z"}

Punct ==
    {"!", "\"", "#", "$", "%", "&", "'", "(", ")", "*", "+", ",", "-", ".",
     "/", ":", ";", "<", "=", ">", "?", "@", "[", "\\", "]", "^", "_",
     "{", "|", "}", "~"}

PosixNames ==
    {<<"a", "l", "n", "u", "m">>, <<"a", "l", "p", "h", "a">>,
     <<"b", "l", "a", "n", "k">>, <<"c", "n", "t", "r", "l">>,
     <<"d", "i", "g", "i", "t">>, <<"g", "r", "a", "p", "h">>,
     <<"l", "o", "w", "e", "r">>, <<"p", "r", "i", "n", "t">>,
     <<"p", "u", "n", "c", "t">>, <<"s", "p", "a", "c", "e">>,
     <<"u", "p", "p", "e", "r">>, <<"x", "d", "i", "g", "i", "t">>}

\* the printable members of the class [:name:]
PosixClass(name) ==
    CASE name = <<"a", "l", "n", "u", "m">> -> Lower \cup Upper \cup Digit
      [] name = <<"a", "l", "p", "h", "a">> -> Lower \cup Upper
      [] name = <<"b", "l", "a", "n", "k">> -> {" "}
      [] name = <<"c", "n", "t", "r", "l">> -> {}
      [] name = <<"d", "i", "g", "i", "t">> -> Digit
      [] name = <<"g", "r", "a", "p", "h">> -> Lower \cup Upper \cup Digit \cup Punct
      [] name = <<"l", "o", "w", "e", "r">> -> Lower
      [] name = <<"p", "r", "i", "n", "t">> ->
            Lower \cup Upper \cup Digit \cup Punct \cup {" "}
      [] name = <<"p", "u", "n", "c", "t">> -> Punct
      [] name = <<"s", "p", "a", "c", "e">> -> {" "}
      [] name = <<"u", "p", "p", "e", "r">> -> Upper
      [] name = <<"x", "d", "i", "g", "i", "t">> ->
            Digit \cup {"a", "b", "c", "d", "e", "f", "A", "B", "C", "D", "E", "F"}

\* the scan of a bracket expression of pattern p against the character t,
\* from its member at position i (the first member is taken as it is, a "]"
\* too): prev is the member before (""  for none), m whether t has matched
\* so far. A backslash quotes the next character; lo-hi is a range, and its
\* low end has matched as a character of its own before; [:name:] is a
\* POSIX class; the scan ends at the next "]". The value is the position of
\* that "]" (0 when the pattern ends before it or names a class that does
\* not exist) and whether t matched.
RECURSIVE BracketScan(_, _, _, _, _)

\* the scan goes on at position k, unless the "]" that ends it is there
BracketMore(p, k, prev, t, m) ==
    IF k <= Len(p) /\ p[k] = "]" THEN [end |-> k, matched |-> m]
    ELSE BracketScan(p, k, prev, t, m)

BracketScan(p, i, prev, t, m) ==
    LET BracketAbort == [end |-> 0, matched |-> FALSE]
    IN  IF i > Len(p) THEN BracketAbort
        ELSE IF p[i] = "\\"
        THEN IF i + 1 > Len(p) THEN BracketAbort
             ELSE BracketMore(p, i + 2, p[i + 1], t, m \/ t = p[i + 1])
        ELSE IF p[i] = "-" /\ prev # "" /\ i + 1 <= Len(p) /\ p[i + 1] # "]"
        THEN LET j == IF p[i + 1] = "\\" THEN i + 2 ELSE i + 1
             IN  IF j > Len(p) THEN BracketAbort
                 ELSE BracketMore(p, j + 1, "", t,
                                  m \/ (Ord(prev) <= Ord(t) /\ Ord(t) <= Ord(p[j])))
        ELSE IF p[i] = "[" /\ i + 1 <= Len(p) /\ p[i + 1] = ":"
        THEN LET closing == {k \in (i + 2)..Len(p) : p[k] = "]"}
                 j == CHOOSE k \in closing : \A l \in closing : k <= l
                 name == SubSeq(p, i + 2, j - 2)
             IN  IF closing = {} THEN BracketAbort
                 ELSE IF j = i + 2 \/ p[j - 1] # ":"
                 THEN BracketMore(p, i + 1, "[", t, m \/ t = "[")
                 ELSE IF name \in PosixNames
                 THEN BracketMore(p, j + 1, "", t, m \/ t \in PosixClass(name))
                 ELSE BracketAbort
        ELSE BracketMore(p, i + 1, p[i], t, m \/ t = p[i])

\* the length of the run of ordinary characters at the head of pattern p
LiteralRun(p) ==
    LET special == {i \in 1..Len(p) : p[i] \in {"*", "?", "[", "\\"}}
    IN  IF special = {} THEN Len(p)
        ELSE (CHOOSE i \in special : \A j \in special : i <= j) - 1

\* git's wildmatch(pattern, text, 0): "*" matches any run of characters and
\* "?" any one character, slashes included; a bracket expression one
\* character, "[!...]" and "[^...]" one that is not a member; a backslash
\* takes the next character literally; a bracket expression that does not
\* scan matches nothing
RECURSIVE wildmatch(_, _)
wildmatch(p, text) ==
    IF p = <<>> THEN text = <<>>
    ELSE IF p[1] = "*"
    THEN \E k \in 0..Len(text) :
            wildmatch(Tail(p), SubSeq(text, k + 1, Len(text)))
    ELSE IF text = <<>> THEN FALSE
    ELSE IF p[1] = "?" THEN wildmatch(Tail(p), Tail(text))
    ELSE IF p[1] = "[" THEN
        LET negated == Len(p) >= 2 /\ p[2] \in {"!", "^"}
            r == BracketScan(p, IF negated THEN 3 ELSE 2, "", text[1], FALSE)
        IN  /\ r.end # 0
            /\ r.matched # negated
            /\ wildmatch(SubSeq(p, r.end + 1, Len(p)), Tail(text))
    ELSE IF p[1] = "\\"
    THEN Len(p) >= 2 /\ text[1] = p[2] /\ wildmatch(SubSeq(p, 3, Len(p)), Tail(text))
    ELSE LET run == LiteralRun(p)
         IN  /\ Len(text) >= run
             /\ SubSeq(text, 1, run) = SubSeq(p, 1, run)
             /\ wildmatch(SubSeq(p, run + 1, Len(p)), SubSeq(text, run + 1, Len(text)))

\* ls-remote's pattern match: the glob "*/<pattern>" against "/<ref>", so
\* the pattern matches the ref from its start or from a slash
TailMatch(pattern, ref) == wildmatch(<<"*", "/">> \o pattern, <<"/">> \o ref)

\* git ls-remote --heads <url> [<pattern>]; patterns = {} lists every head.
\* A line of the output is the ref name (the object id before it is left out).
git_ls_remote_heads(rem, net, patterns) ==
    IF net
    THEN [rc |-> 0,
          out |-> SortedSeq({REFS_HEADS \o h : h \in
                     {n \in DOMAIN rem.heads :
                        \/ patterns = {}
                        \/ \E p \in patterns : TailMatch(p, REFS_HEADS \o n)}})]
    ELSE [rc |-> 128, out |-> <<>>]

\* git branch
git_branch(m, env) ==
    IF env /\ m.kind = "repo"
    THEN LET names == SortedSeq(DOMAIN m.locals)
         IN  [rc |-> 0,
              out |-> [i \in 1..Len(names) |->
                         (IF names[i] = m.HEAD THEN <<"*", " ">> ELSE <<" ", " ">>)
                         \o names[i]],
              mirror |-> m]
    ELSE git_fail(m)

\* git checkout -B <br> origin/<br>
git_checkout_B(m, br, env) ==
    IF env /\ m.kind = "repo" /\ br \in DOMAIN m.remotes
    THEN [rc |-> 0, out |-> <<>>,
          mirror |-> [m EXCEPT !.locals = [n \in {br} |-> m.remotes[br]] @@ m.locals,
                               !.HEAD = br]]
    ELSE git_fail(m)

\* git checkout <br>: switches to the local branch; when there is none but
\* a remote-tracking branch of that name, git creates the local branch from it
git_checkout(m, br, env) ==
    IF env /\ m.kind = "repo" /\ br \in DOMAIN m.locals
    THEN [rc |-> 0, out |-> <<>>, mirror |-> [m EXCEPT !.HEAD = br]]
    ELSE IF env /\ m.kind = "repo" /\ br \in DOMAIN m.remotes
    THEN [rc |-> 0, out |-> <<>>,
          mirror |-> [m EXCEPT !.locals = [n \in {br} |-> m.remotes[br]] @@ m.locals,
                               !.HEAD = br]]
    ELSE git_fail(m)

\* git pull on the checked-out branch: fetch, then fast-forward. The fetch
\* is done before anything else is looked at. A branch the remote does not
\* have cannot be merged (exit status 1); a local branch that diverged from
\* its remote counterpart is not reconciled.
git_pull(m, rem, net) ==
    IF net /\ m.kind = "repo"
    THEN LET fetched == Fetched(m, rem)
         IN  IF m.HEAD \notin DOMAIN m.locals \/ m.HEAD \notin DOMAIN rem.heads
             THEN [rc |-> 1, out |-> <<>>, mirror |-> fetched]
             ELSE LET mine == m.locals[m.HEAD]
                      theirs == rem.heads[m.HEAD]
                  IN  IF mine \in Ancestors(theirs)
                      THEN [rc |-> 0, out |-> <<>>,
                            mirror |-> [fetched EXCEPT !.locals[m.HEAD] = theirs]]
                      ELSE IF theirs \in Ancestors(mine)
                      THEN [rc |-> 0, out |-> <<>>, mirror |-> fetched]
                      ELSE [rc |-> 128, out |-> <<>>, mirror |-> fetched]
    ELSE git_fail(m)

\* --sort=-creatordate: newest first; equal dates in refname order
RECURSIVE SortByCreatorDateDesc(_)
SortByCreatorDateDesc(T) ==
    IF T = {} THEN <<>>
    ELSE LET first == CHOOSE t \in T : \A u \in T \ {t} :
                         \/ t.time > u.time
                         \/ t.time = u.time /\ StrLess(t.name, u.name)
         IN  <<first.name>> \o SortByCreatorDateDesc(T \ {first})

NoBranch == <<>>

\* git tag -l "<pat>*" [--merged <br>] --sort=-creatordate
git_tag_list(m, pat, merged, env) ==
    IF env /\ m.kind = "repo" /\ (merged = NoBranch \/ merged \in DOMAIN m.locals)
    THEN [rc |-> 0,
          out |-> SortByCreatorDateDesc(
                     {t \in m.tags :
                        /\ startswith(t.name, pat)
                        /\ merged # NoBranch => t.commit \in Ancestors(m.locals[merged])}),
          mirror |-> m]
    ELSE git_fail(m)

----------------------------------------------------------------------------
(* run_git_command, and the branch resolution of the two variants *)

\* run_git_command: RuntimeError on a non-zero exit status, else stdout.strip()
run_git_command(g) ==
    IF g.rc # 0 THEN [exc |-> "RuntimeError", out |-> <<>>]
    ELSE [exc |-> "", out |-> StripOutput(g.out)]

\* branch_exists taking a failed query for a branch that exists
branch_exists_unless_failed(rem, net, branch_name) ==
    LET r == run_git_command(git_ls_remote_heads(rem, net, {REFS_HEADS \o branch_name}))
    IN  IF r.exc = "RuntimeError" THEN TRUE ELSE r.out # <<>>

\* src/automation/go.py branch_exists: `rem` is the remote at repo_url
branch_exists(rem, net, branch_name) ==
    LET r == run_git_command(git_ls_remote_heads(rem, net, {REFS_HEADS \o branch_name}))
    IN  IF r.exc = "RuntimeError" THEN FALSE ELSE r.out # <<>>

\* f"chore_release-{version.lstrip('v')}"
chore_name(ver) == CHORE_PREFIX \o lstrip(ver, {"v"})

\* src/automation/go.py RepoSpec.branches_to_sync
branches_to_sync(repo, ver, rem, net) ==
    LET chore == chore_name(ver)
    IN  IF branch_exists(rem, net, chore)
        THEN <<repo.default_branch, chore>>
        ELSE <<repo.default_branch>>

\* semver.Version.parse of a string of digits and dots: three numeric
\* components without leading zeros, else ValueError
semver_valid(s) ==
    LET parts == split(s, <<".">>, <<>>)
    IN  /\ Len(parts) = 3
        /\ \A i \in 1..3 : isdigit(parts[i]) /\ (Len(parts[i]) > 1 => parts[i][1] # "0")

semver_key(s) == LET parts == split(s, <<".">>, <<>>) IN [i \in 1..3 |-> IntOf(parts[i])]

\* tuple order of two semver keys
semver_less(a, b) ==
    \/ a[1] < b[1]
    \/ a[1] = b[1] /\ a[2] < b[2]
    \/ a[1] = b[1] /\ a[2] = b[2] /\ a[3] < b[3]

\* src/go.py get_latest_chore_release_branch: [exc, value]
get_latest_chore_release_branch(rem, net) ==
    LET remote_branches == run_git_command(git_ls_remote_heads(rem, net, {}))
        IsChoreLine(line) == contains(line, REFS_HEADS \o CHORE_PREFIX)
        lines == SelectSeq(remote_branches.out, IsChoreLine)
        chore_branches == [i \in 1..Len(lines) |-> split(lines[i], REFS_HEADS, <<>>)[2]]
        IsNumeric(b) == isdigit(replace(replace(b, CHORE_PREFIX, <<>>), <<".">>, <<>>))
        numeric == SelectSeq(chore_branches, IsNumeric)
        Key(b) == replace(b, CHORE_PREFIX, <<>>)
    IN  IF remote_branches.exc # "" THEN [exc |-> "RuntimeError", value |-> <<>>]
        ELSE IF numeric = <<>> THEN [exc |-> "", value |-> <<>>]
        ELSE IF \E i \in 1..Len(numeric) : ~semver_valid(Key(numeric[i]))
        THEN [exc |-> "ValueError", value |-> <<>>]
        ELSE LET last == CHOOSE i \in 1..Len(numeric) : \A j \in 1..Len(numeric) :
                            \/ semver_less(semver_key(Key(numeric[j])), semver_key(Key(numeric[i])))
                            \/ /\ semver_key(Key(numeric[j])) = semver_key(Key(numeric[i]))
                               /\ j <= i
             IN  [exc |-> "", value |-> numeric[last]]

\* branches_to_sync that looks for a release branch whatever the flag says
seq_branches_to_sync_flag_ignored(repo, rem, net) ==
    LET chore == get_latest_chore_release_branch(rem, net)
    IN  IF chore.exc # ""
        THEN [exc |-> chore.exc, value |-> <<>>, cmds |-> {"ls-remote"}]
        ELSE IF chore.value # <<>>
        THEN [exc |-> "", value |-> <<repo.primary_branch, chore.value>>,
              cmds |-> {"ls-remote"}]
        ELSE [exc |-> "", value |-> <<repo.primary_branch>>, cmds |-> {"ls-remote"}]

\* src/go.py RepoSpec.branches_to_sync: [exc, value, cmds]
seq_branches_to_sync(repo, rem, net) ==
    IF repo.want_chore_release
    THEN LET chore == get_latest_chore_release_branch(rem, net)
         IN  IF chore.exc # ""
             THEN [exc |-> chore.exc, value |-> <<>>, cmds |-> {"ls-remote"}]
             ELSE IF chore.value # <<>>
             THEN [exc |-> "", value |-> <<repo.primary_branch, chore.value>>,
                   cmds |-> {"ls-remote"}]
             ELSE [exc |-> "", value |-> <<repo.primary_branch>>, cmds |-> {"ls-remote"}]
    ELSE [exc |-> "", value |-> <<repo.primary_branch>>, cmds |-> {}]

----------------------------------------------------------------------------
(* Inputs: versions, branch names, tags *)

VER_841 == <<"8", ".", "4", ".", "1">>

VER_840 == <<"8", ".", "4", ".", "0">>

BR_CHORE_841 == CHORE_PREFIX \o VER_841

BR_CHORE_840 == CHORE_PREFIX \o VER_840

\* a release branch whose suffix has two components only
BR_CHORE_84 == CHORE_PREFIX \o <<"8", ".", "4">>

\* a release branch whose suffix is not numeric
BR_CHORE_X == CHORE_PREFIX \o <<"x">>

\* a head whose name ends in the ref name of a release branch
BR_TAIL_841 == <<"x", "/">> \o REFS_HEADS \o BR_CHORE_841

\* the tip of a head: the primary line ends at 3, every other head at 4
HeadCommit(n, primary) == IF n = primary THEN 3 ELSE 4

Heads(names, primary) == [n \in names |-> HeadCommit(n, primary)]

\* release tags v1, v2, ...: creation dates tie in pairs; the newest one
\* sits on the side line only
TagV(i) ==
    [name |-> PAT_V \o Str(i), time |-> (i + 1) \div 2,
     commit |-> IF i = MaxTags THEN 4 ELSE ((i - 1) % 3) + 1]

\* internal tags, newer than every release tag; two of them tie
TagI(i) ==
    [name |-> PAT_INTERNAL \o Str(i), time |-> MaxTags + (i \div 2),
     commit |-> IF i = 3 THEN 4 ELSE i]

\* a tag that holds the letter v but does not start with a pattern
TagOther == [name |-> <<"x", "v", "1">>, time |-> MaxTags + 3, commit |-> 3]

TagsUpTo(n) == {TagV(i) : i \in 1..n}

RichTags == TagsUpTo(MaxTags) \cup {TagI(1), TagI(2), TagI(3), TagOther}

FewTags == TagsUpTo(2) \cup {TagI(1), TagOther}

\* no function call is set up, none has returned
NoCall == [op |-> "none", branch |-> <<>>, want |-> FALSE, ver |-> <<>>, patterns |-> <<>>]

NoRet == [op |-> "none", exc |-> "", value |-> <<>>, net |-> TRUE, cmds |-> {}]

----------------------------------------------------------------------------
(* src/automation/go.py: process_repo, in its three phases *)

\* Python's None, where a tag name is expected
None == <<>>

\* the RepoState of a task that has not returned one
NoState == [branch_tags |-> <<>>, overall_tags |-> <<>>]

\* clone or fetch, followed by a push of the local tags
process_repo_sync_push(m, rem, net) ==
    LET g == IF m.kind # "repo" THEN git_clone(m, rem, net) ELSE git_fetch_all(m, rem, net)
    IN  [exc |-> run_git_command(g).exc, mirror |-> g.mirror,
         cmds |-> {IF m.kind # "repo" THEN "clone" ELSE "fetch", "push"}]

\* process_repo, "clone or fetch": [exc, mirror, cmds]
process_repo_sync(m, rem, net) ==
    IF m.kind # "repo"
    THEN LET g == git_clone(m, rem, net)
         IN  [exc |-> run_git_command(g).exc, mirror |-> g.mirror, cmds |-> {"clone"}]
    ELSE LET g == git_fetch_all(m, rem, net)
         IN  [exc |-> run_git_command(g).exc, mirror |-> g.mirror, cmds |-> {"fetch"}]

\* [b.strip("* ").strip() for b in <output of git branch>.splitlines()]
existing_branches(lines) ==
    {strip(strip(lines[i], {"*", " "}), {" "}) : i \in 1..Len(lines)}

\* process_repo, "checkout branches": the loop body for branch br.
\* failAt names the git command the environment makes fail, if any.
process_repo_checkout(m, rem, br, failAt) ==
    LET b == git_branch(m, failAt # "branch")
        names == existing_branches(run_git_command(b).out)
    IN  IF b.rc # 0
        THEN [exc |-> "RuntimeError", mirror |-> m, cmds |-> {"branch"}]
        ELSE IF br \notin names
        THEN LET c == git_checkout_B(m, br, failAt # "checkout")
             IN  [exc |-> run_git_command(c).exc, mirror |-> c.mirror,
                  cmds |-> {"branch", "checkout -B"}]
        ELSE LET c == git_checkout(m, br, failAt # "checkout")
                 q == git_pull(c.mirror, rem, failAt # "pull")
             IN  IF c.rc # 0
                 THEN [exc |-> "RuntimeError", mirror |-> c.mirror,
                       cmds |-> {"branch", "checkout"}]
                 ELSE [exc |-> run_git_command(q).exc, mirror |-> q.mirror,
                       cmds |-> {"branch", "checkout", "pull"}]

\* the listing of a branch without the cut to the recency window
merged_tags_uncut(m, br, pat, env) ==
    LET r == run_git_command(git_tag_list(m, pat, br, env))
    IN  [exc |-> r.exc, value |-> r.out]

\* process_repo lines 94-99, one entry of the dict comprehension: the tags
\* of pattern pat merged into br, the 7 newest: [exc, value]
merged_tags(m, br, pat, env) ==
    LET r == run_git_command(git_tag_list(m, pat, br, env))
    IN  [exc |-> r.exc, value |-> Take(r.out, TagWindow)]

\* the overall tag taken from the listing of every tag, whatever its pattern
overall_tag_any_pattern(m, pat, env) ==
    LET r == run_git_command(git_tag_list(m, <<>>, NoBranch, env))
    IN  [exc |-> r.exc, value |-> IF r.out # <<>> THEN r.out[1] ELSE None]

\* process_repo lines 102-104, one turn: the newest tag of pattern pat on
\* any branch, or None: [exc, value]
overall_tag(m, pat, env) ==
    LET r == run_git_command(git_tag_list(m, pat, NoBranch, env))
    IN  [exc |-> r.exc, value |-> IF r.out # <<>> THEN r.out[1] ELSE None]

\* process_repo, "collect tags": [exc, state]
process_repo_collect(repo, m, brs, env) ==
    LET patterns == {repo.external_tag_pattern, repo.internal_tag_pattern}
    IN  IF \/ \E br \in Range(brs), pat \in patterns : merged_tags(m, br, pat, env).exc # ""
           \/ \E pat \in patterns : overall_tag(m, pat, env).exc # ""
        THEN [exc |-> "RuntimeError", state |-> NoState]
        ELSE [exc |-> "",
              state |->
                [branch_tags |->
                    [br \in Range(brs) |->
                        [pat \in patterns |-> merged_tags(m, br, pat, env).value]],
                 overall_tags |->
                    [pat \in patterns |-> overall_tag(m, pat, env).value]]]

----------------------------------------------------------------------------
(* src/go.py: clone_or_fetch_repo and get_latest_tags *)

\* a clone that only initialises the repository and adds the remote
clone_or_fetch_repo_init_only(m, rem, net) ==
    IF m.kind = "absent"
    THEN [exc |-> IF net THEN "" ELSE "RuntimeError",
          mirror |-> IF net THEN [NoMirror EXCEPT !.kind = "repo"] ELSE m,
          cmds |-> {"clone"}]
    ELSE LET g == git_fetch_all(m, rem, net)
         IN  [exc |-> run_git_command(g).exc, mirror |-> g.mirror, cmds |-> {"fetch"}]

\* clone_or_fetch_repo: [exc, mirror, cmds]
clone_or_fetch_repo(m, rem, net) ==
    IF m.kind = "absent"
    THEN LET g == git_clone(m, rem, net)
         IN  [exc |-> run_git_command(g).exc, mirror |-> g.mirror, cmds |-> {"clone"}]
    ELSE LET g == git_fetch_all(m, rem, net)
         IN  [exc |-> run_git_command(g).exc, mirror |-> g.mirror, cmds |-> {"fetch"}]

\* the text of an output from its lines
RECURSIVE JoinLines(_)
JoinLines(lines) ==
    IF lines = <<>> THEN <<>>
    ELSE IF Len(lines) = 1 THEN lines[1]
    ELSE lines[1] \o <<"\n">> \o JoinLines(Tail(lines))

\* git log -1 --format=%cd --date=iso <br>
git_log_1(m, br, env) ==
    IF env /\ m.kind = "repo" /\ br \in DOMAIN m.locals
    THEN [rc |-> 0, out |-> <<Str(m.locals[br])>>, mirror |-> m]
    ELSE git_fail(m)

\* ensure_branches_checked_out: [exc, mirror, cmds, summary]; summary is
\* the list of the branches that got a row. `branch not in local_branches`
\* is a test on the text of `git branch`.
RECURSIVE ensure_branches_checked_out(_, _, _, _)
ensure_branches_checked_out(m, rem, brs, failAt) ==
    IF brs = <<>> THEN [exc |-> "", mirror |-> m, cmds |-> {}, summary |-> <<>>]
    ELSE
    LET branch == Head(brs)
        b == git_branch(m, failAt # "branch")
        local_branches == JoinLines(run_git_command(b).out)
        create == ~contains(local_branches, branch)
        c == IF create THEN git_checkout_B(m, branch, failAt # "checkout")
             ELSE git_checkout(m, branch, failAt # "checkout")
        q == IF create THEN c ELSE git_pull(c.mirror, rem, failAt # "pull")
        t == git_log_1(q.mirror, branch, failAt # "log")
        issued == {"branch"} \cup (IF create THEN {"checkout -B"} ELSE {"checkout"})
        rest == ensure_branches_checked_out(t.mirror, rem, Tail(brs), failAt)
    IN  IF b.rc # 0
        THEN [exc |-> "RuntimeError", mirror |-> m, cmds |-> {"branch"}, summary |-> <<>>]
        ELSE IF c.rc # 0
        THEN [exc |-> "RuntimeError", mirror |-> c.mirror, cmds |-> issued, summary |-> <<>>]
        ELSE IF q.rc # 0
        THEN [exc |-> "RuntimeError", mirror |-> q.mirror,
              cmds |-> issued \cup {"pull"}, summary |-> <<>>]
        ELSE IF t.rc # 0
        THEN [exc |-> "RuntimeError", mirror |-> t.mirror,
              cmds |-> issued \cup (IF create THEN {} ELSE {"pull"}) \cup {"log"},
              summary |-> <<>>]
        ELSE [exc |-> rest.exc, mirror |-> rest.mirror,
              cmds |-> issued \cup (IF create THEN {} ELSE {"pull"}) \cup {"log"}
                       \cup rest.cmds,
              summary |-> IF rest.exc = "" THEN <<branch>> \o rest.summary ELSE <<>>]

\* get_latest_tags whose listings lack --sort: they come in refname order
RECURSIVE get_latest_tags_unsorted(_, _, _, _, _)
get_latest_tags_unsorted(m, branch, patterns, count, env) ==
    IF patterns = <<>> THEN [exc |-> "", value |-> <<>>]
    ELSE LET g == git_tag_list(m, Head(patterns), branch, env)
             rest == get_latest_tags_unsorted(m, branch, Tail(patterns), count, env)
         IN  IF g.rc # 0 \/ rest.exc # ""
             THEN [exc |-> "RuntimeError", value |-> <<>>]
             ELSE [exc |-> "",
                   value |-> Take(Take(SortedSeq(Range(run_git_command(g).out)), count)
                                  \o rest.value, count)]

\* get_latest_tags: [exc, value]. The first pattern's tags come first; the
\* list is cut to `count` once per pattern and once at the end.
RECURSIVE get_latest_tags(_, _, _, _, _)
get_latest_tags(m, branch, patterns, count, env) ==
    IF patterns = <<>> THEN [exc |-> "", value |-> <<>>]
    ELSE LET g == git_tag_list(m, Head(patterns), branch, env)
             rest == get_latest_tags(m, branch, Tail(patterns), count, env)
         IN  IF g.rc # 0 \/ rest.exc # ""
             THEN [exc |-> "RuntimeError", value |-> <<>>]
             ELSE [exc |-> "",
                   value |-> Take(Take(run_git_command(g).out, count) \o rest.value, count)]

----------------------------------------------------------------------------
(* src/go.py: the `repos` list and main() *)

SeqAllRepos ==
    << [name |-> "buildroot", primary_branch |-> BR_DEVELOP,
        want_chore_release |-> TRUE, tag_patterns |-> <<PAT_V, PAT_INTERNAL>>],
       [name |-> "ot3-firmware", primary_branch |-> BR_MAIN,
        want_chore_release |-> TRUE, tag_patterns |-> <<PAT_V, PAT_INTERNAL>>],
       [name |-> "oe-core", primary_branch |-> BR_MAIN,
        want_chore_release |-> TRUE, tag_patterns |-> <<PAT_V, PAT_INTERNAL>>],
       [name |-> "opentrons", primary_branch |-> BR_EDGE,
        want_chore_release |-> TRUE, tag_patterns |-> <<PAT_V, PAT_OT3>>] >>

\* the entries of the list that take part in a run
seq_repos ==
    SubSeq(SeqAllRepos, 1, IF NumRepos < Len(SeqAllRepos) THEN NumRepos ELSE Len(SeqAllRepos))

\* a row of the tags table: for each tag pattern,
\* get_latest_tags(local_path, branch, [pattern]). Value: [exc, value]
RECURSIVE seq_tag_cells(_, _, _, _)
seq_tag_cells(m, branch, patterns, env) ==
    IF patterns = <<>> THEN [exc |-> "", value |-> <<>>]
    ELSE LET cell == get_latest_tags(m, branch, <<Head(patterns)>>, TagWindow, env)
             rest == seq_tag_cells(m, branch, Tail(patterns), env)
         IN  IF cell.exc # "" THEN [exc |-> cell.exc, value |-> <<>>]
             ELSE IF rest.exc # "" THEN [exc |-> rest.exc, value |-> <<>>]
             ELSE [exc |-> "", value |-> <<cell.value>> \o rest.value]

----------------------------------------------------------------------------
(* src/automation/go.py: the `repos` list and main() *)

\* "https://github.com/Opentrons/"
URL_ORG == <<"h", "t", "t", "p", "s", ":", "/", "/", "g", "i", "t", "h", "u", "b",
    ".", "c", "o", "m", "/", "O", "p", "e", "n", "t", "r", "o", "n", "s",
    "/">>

DOT_GIT == <<".", "g", "i", "t">>

AllRepos ==
    << [name |-> "buildroot",
        repo_url |-> URL_ORG \o <<"b", "u", "i", "l", "d", "r", "o", "o", "t">> \o DOT_GIT,
        default_branch |-> BR_DEVELOP,
        external_tag_pattern |-> PAT_V, internal_tag_pattern |-> PAT_INTERNAL],
       [name |-> "ot3-firmware",
        repo_url |-> URL_ORG \o <<"o", "t", "3", "-", "f", "i", "r", "m", "w", "a", "r", "e">> \o DOT_GIT,
        default_branch |-> BR_MAIN,
        external_tag_pattern |-> PAT_V, internal_tag_pattern |-> PAT_INTERNAL],
       [name |-> "oe-core",
        repo_url |-> URL_ORG \o <<"o", "e", "-", "c", "o", "r", "e">> \o DOT_GIT,
        default_branch |-> BR_MAIN,
        external_tag_pattern |-> PAT_V, internal_tag_pattern |-> PAT_INTERNAL],
       [name |-> "opentrons",
        repo_url |-> URL_ORG \o <<"o", "p", "e", "n", "t", "r", "o", "n", "s">> \o DOT_GIT,
        default_branch |-> BR_EDGE,
        external_tag_pattern |-> PAT_V, internal_tag_pattern |-> PAT_OT3] >>

repos == SubSeq(AllRepos, 1, IF NumRepos < Len(AllRepos) THEN NumRepos ELSE Len(AllRepos))

Names == {repos[i].name : i \in 1..Len(repos)}

RepoOf(n) == repos[CHOOSE i \in 1..Len(repos) : repos[i].name = n]

\* a mirror left by an earlier run, when the primary branch stood at commit 2
StaleMirror(d) ==
    Packed([kind |-> "repo", remotes |-> [n \in {d} |-> 2], locals |-> [n \in {d} |-> 2],
         HEAD |-> d, tags |-> {}])

\* a mirror whose local release branch has a commit of its own: it and
\* the remote's release branch (at 4) have diverged
DivergedMirror(d) ==
    Packed([kind |-> "repo", remotes |-> [n \in {d, BR_CHORE_841} |-> 2],
         locals |-> [n \in {d, BR_CHORE_841} |-> IF n = d THEN 2 ELSE 3],
         HEAD |-> BR_CHORE_841, tags |-> {TagV(1), TagV(2)}])

\* the situations a repository can be in when a run starts:
\*   1  a mirror exists, the remote has moved on; it has another version's
\*      release branch and no tag of any pattern
\*   2  no mirror yet; the remote has the release branch and many tags
\*   3  a mirror exists whose release branch has diverged from the remote's
Scenarios == 1..3

ScenarioRemote(k, d) ==
    CASE k = 1 -> [heads |-> Heads({d, BR_CHORE_840}, d), HEAD |-> d, tags |-> {TagOther}]
      [] k = 2 -> [heads |-> Heads({d, BR_CHORE_841}, d), HEAD |-> d, tags |-> RichTags]
      [] k = 3 -> [heads |-> Heads({d, BR_CHORE_841}, d), HEAD |-> d, tags |-> FewTags]

ScenarioMirror(k, d) ==
    CASE k = 1 -> StaleMirror(d)
      [] k = 2 -> NoMirror
      [] k = 3 -> DivergedMirror(d)

\* what the operator may type at the "Base version" prompt
VersionInputs == {<<"v">> \o VER_841, VER_841}

Terminal == {"Done", "Failed"}

Init ==
    /\ \E sc \in [Names -> Scenarios] :
        /\ remote = [n \in Names |-> ScenarioRemote(sc[n], RepoOf(n).default_branch)]
        /\ mirror = [n \in Names |-> ScenarioMirror(sc[n], RepoOf(n).default_branch)]
    /\ version = <<>>
    /\ release_type = "external"
    /\ mainpc = "prompt"
    /\ pc = [n \in Names |-> "Pending"]
    /\ branches = [n \in Names |-> <<>>]
    /\ idx = [n \in Names |-> 0]
    /\ at = [n \in Names |-> ""]
    /\ listed = [n \in Names |-> 0]
    /\ existing = [n \in Names |-> {}]
    /\ state = [n \in Names |-> NoState]
    /\ results = <<>>
    /\ collected = {}
    /\ console = <<>>
    /\ logged = [n \in Names |-> ""]
    /\ logi = 0
    /\ fnArgs = NoCall
    /\ fnRet = NoRet

\* main(), lines 233-244: the prompts, the normalisation of the version and
\* the submission of one task per repository
Prompt ==
    /\ mainpc = "prompt"
    /\ \E rt \in {"internal", "external"}, raw \in VersionInputs :
        /\ release_type' = rt
        /\ version' = IF ~startswith(raw, <<"v">>) THEN <<"v">> \o raw ELSE raw
    /\ mainpc' = "collect"
    /\ UNCHANGED <<remote, mirror, pc, branches, idx, at, listed, existing, state, results,
                   collected, console, logged, logi, fnVars>>

\* a worker of the pool starts the task of repository n
TaskStart(n) ==
    /\ mainpc # "prompt"
    /\ pc[n] = "Pending"
    /\ pc' = [pc EXCEPT ![n] = "Syncing"]
    /\ at' = [at EXCEPT ![n] = "sync"]
    /\ UNCHANGED <<remote, mirror, version, release_type, mainpc, branches,
                   idx, listed, existing, state, results, collected, console, logged, logi, fnVars>>

\* the task's frame is gone once it has raised or returned
NoFrame(n) ==
    /\ branches' = [branches EXCEPT ![n] = <<>>]
    /\ idx' = [idx EXCEPT ![n] = 0]
    /\ at' = [at EXCEPT ![n] = ""]
    /\ listed' = [listed EXCEPT ![n] = 0]
    /\ existing' = [existing EXCEPT ![n] = {}]

\* run_git_command has raised: the exception leaves process_repo
TaskRaise(n) ==
    /\ pc' = [pc EXCEPT ![n] = "Failed"]
    /\ NoFrame(n)

\* process_repo lines 73-77 with a failed clone or fetch tried again: the
\* task goes back to its start
TaskSync_retry(n) ==
    /\ pc[n] = "Syncing"
    /\ at[n] = "sync"
    /\ \E net \in BOOLEAN :
        LET s == process_repo_sync(mirror[n], remote[n], net)
        IN  /\ mirror' = [mirror EXCEPT ![n] = s.mirror]
            /\ IF s.exc # ""
               THEN pc' = [pc EXCEPT ![n] = "Pending"] /\ NoFrame(n)
               ELSE /\ at' = [at EXCEPT ![n] = "ls-remote"]
                    /\ UNCHANGED <<pc, branches, idx, listed, existing>>
    /\ UNCHANGED <<remote, version, release_type, mainpc, state, results,
                   collected, console, logged, logi, fnVars>>

\* process_repo lines 73-77: the clone, or the fetch
TaskSync(n) ==
    /\ pc[n] = "Syncing"
    /\ at[n] = "sync"
    /\ \E net \in BOOLEAN :
        LET s == process_repo_sync(mirror[n], remote[n], net)
        IN  /\ mirror' = [mirror EXCEPT ![n] = s.mirror]
            /\ IF s.exc # ""
               THEN TaskRaise(n)
               ELSE /\ at' = [at EXCEPT ![n] = "ls-remote"]
                    /\ UNCHANGED <<pc, branches, idx, listed, existing>>
    /\ UNCHANGED <<remote, version, release_type, mainpc, state, results,
                   collected, console, logged, logi, fnVars>>

\* process_repo line 80: branches_to_sync, with its ls-remote query
TaskBranches(n) ==
    /\ pc[n] = "Syncing"
    /\ at[n] = "ls-remote"
    /\ \E net \in BOOLEAN :
        branches' = [branches EXCEPT ![n] =
                        branches_to_sync(RepoOf(n), version, remote[n], net)]
    /\ pc' = [pc EXCEPT ![n] = "BranchResolved"]
    /\ at' = [at EXCEPT ![n] = "branch"]
    /\ UNCHANGED <<remote, mirror, version, release_type, mainpc, idx, listed, existing, state,
                   results, collected, console, logged, logi, fnVars>>

\* the checkout loop goes on to its next branch, or ends
NextBranch(n) ==
    /\ idx' = [idx EXCEPT ![n] = @ + 1]
    /\ at' = [at EXCEPT ![n] = IF idx[n] + 1 < Len(branches[n]) THEN "branch" ELSE "tag"]
    /\ UNCHANGED <<pc, branches, listed, existing>>

\* process_repo line 82: the `git branch` listing of one turn of the loop
TaskBranchList(n) ==
    /\ pc[n] = "BranchResolved"
    /\ at[n] = "branch"
    /\ \E env \in BOOLEAN :
        LET b == run_git_command(git_branch(mirror[n], env))
        IN  IF b.exc # ""
            THEN TaskRaise(n)
            ELSE /\ existing' = [existing EXCEPT ![n] = existing_branches(b.out)]
                 /\ at' = [at EXCEPT ![n] = "checkout"]
                 /\ UNCHANGED <<pc, branches, idx, listed>>
    /\ UNCHANGED <<remote, mirror, version, release_type, mainpc, state, results,
                   collected, console, logged, logi, fnVars>>

\* process_repo lines 83-86: `checkout -B` of a branch that is not in
\* `existing`, else `checkout`
TaskCheckout(n) ==
    /\ pc[n] = "BranchResolved"
    /\ at[n] = "checkout"
    /\ \E env \in BOOLEAN :
        LET br == branches[n][idx[n] + 1]
            c == IF br \notin existing[n]
                 THEN git_checkout_B(mirror[n], br, env)
                 ELSE git_checkout(mirror[n], br, env)
        IN  /\ mirror' = [mirror EXCEPT ![n] = c.mirror]
            /\ IF run_git_command(c).exc # ""
               THEN TaskRaise(n)
               ELSE IF br \notin existing[n]
               THEN NextBranch(n)
               ELSE /\ at' = [at EXCEPT ![n] = "pull"]
                    /\ UNCHANGED <<pc, branches, idx, listed, existing>>
    /\ UNCHANGED <<remote, version, release_type, mainpc, state, results,
                   collected, console, logged, logi, fnVars>>

\* process_repo line 87: `git pull` on the branch just checked out
TaskPull(n) ==
    /\ pc[n] = "BranchResolved"
    /\ at[n] = "pull"
    /\ \E net \in BOOLEAN :
        LET q == git_pull(mirror[n], remote[n], net)
        IN  /\ mirror' = [mirror EXCEPT ![n] = q.mirror]
            /\ IF run_git_command(q).exc # "" THEN TaskRaise(n) ELSE NextBranch(n)
    /\ UNCHANGED <<remote, version, release_type, mainpc, state, results,
                   collected, console, logged, logi, fnVars>>

\* patterns = [repo.external_tag_pattern, repo.internal_tag_pattern]
PatternList(repo) == <<repo.external_tag_pattern, repo.internal_tag_pattern>>

\* process_repo lines 89-104: one tag listing. The first 2 * len(branches)
\* listings are those of the dict comprehensions, branch by branch and
\* pattern by pattern; state.branch_tags[br] is assigned when the last
\* pattern of br is listed (the listings of its earlier patterns were taken
\* from the same mirror). The listings after them are the overall ones.
TaskCollect(n) ==
    /\ pc[n] = "BranchResolved"
    /\ at[n] = "tag"
    /\ \E env \in BOOLEAN :
        LET patterns == PatternList(RepoOf(n))
            k == listed[n]
            merges == Len(patterns) * Len(branches[n])
        IN  IF k < merges
            THEN LET br == branches[n][(k \div Len(patterns)) + 1]
                     j == (k % Len(patterns)) + 1
                     r == merged_tags(mirror[n], br, patterns[j], env)
                 IN  IF r.exc # ""
                     THEN TaskRaise(n) /\ state' = [state EXCEPT ![n] = NoState]
                     ELSE /\ listed' = [listed EXCEPT ![n] = k + 1]
                          /\ state' =
                                IF j < Len(patterns) THEN state
                                ELSE [state EXCEPT ![n].branch_tags =
                                        [b \in {br} |->
                                            [pat \in Range(patterns) |->
                                                IF pat = patterns[j] THEN r.value
                                                ELSE merged_tags(mirror[n], br, pat, TRUE).value]]
                                        @@ @]
                          /\ UNCHANGED <<pc, branches, idx, at, existing>>
            ELSE LET j == k - merges + 1
                     r == overall_tag(mirror[n], patterns[j], env)
                 IN  IF r.exc # ""
                     THEN TaskRaise(n) /\ state' = [state EXCEPT ![n] = NoState]
                     ELSE /\ listed' = [listed EXCEPT ![n] = k + 1]
                          /\ state' = [state EXCEPT ![n].overall_tags =
                                          [pat \in {patterns[j]} |-> r.value] @@ @]
                          /\ IF j = Len(patterns)
                             THEN /\ pc' = [pc EXCEPT ![n] = "TagsCollected"]
                                  /\ at' = [at EXCEPT ![n] = "return"]
                             ELSE UNCHANGED <<pc, at>>
                          /\ UNCHANGED <<branches, idx, existing>>
    /\ UNCHANGED <<remote, mirror, version, release_type, mainpc,
                   results, collected, console, logged, logi, fnVars>>

\* process_repo line 106: return state
TaskReturn(n) ==
    /\ pc[n] = "TagsCollected"
    /\ pc' = [pc EXCEPT ![n] = "Done"]
    /\ NoFrame(n)
    /\ UNCHANGED <<remote, mirror, version, release_type, mainpc,
                   state, results, collected, console, logged, logi, fnVars>>

\* main() lines 245-251 without the try/except: the task's exception leaves
\* the loop and main
MainCollect_uncaught(n) ==
    /\ mainpc = "collect"
    /\ n \notin collected
    /\ pc[n] \in Terminal
    /\ collected' = collected \cup {n}
    /\ IF pc[n] = "Done"
       THEN /\ results' = [m \in {n} |-> state[n]] @@ results
            /\ logged' = [logged EXCEPT ![n] = "synced"]
            /\ UNCHANGED mainpc
       ELSE mainpc' = "crashed" /\ UNCHANGED <<results, logged>>
    /\ UNCHANGED <<remote, mirror, version, release_type, pc, branches, idx, at, listed, existing,
                   state, console, logi, fnVars>>

\* main() lines 245-251 with a failed task submitted again
MainCollect_retry(n) ==
    /\ mainpc = "collect"
    /\ n \notin collected
    /\ pc[n] \in Terminal
    /\ IF pc[n] = "Done"
       THEN /\ results' = [m \in {n} |-> state[n]] @@ results
            /\ collected' = collected \cup {n}
            /\ logged' = [logged EXCEPT ![n] = "synced"]
            /\ UNCHANGED pc
       ELSE /\ pc' = [pc EXCEPT ![n] = "Pending"]
            /\ logged' = [logged EXCEPT ![n] = "failed"]
            /\ UNCHANGED <<results, collected>>
    /\ UNCHANGED <<remote, mirror, version, release_type, mainpc, branches, idx, at, listed, existing,
                   state, console, logi, fnVars>>

\* main() lines 245-251 with an entry written for a failed task as well
MainCollect_records_failed(n) ==
    /\ mainpc = "collect"
    /\ n \notin collected
    /\ pc[n] \in Terminal
    /\ collected' = collected \cup {n}
    /\ results' = [m \in {n} |-> state[n]] @@ results
    /\ logged' = [logged EXCEPT ![n] = IF pc[n] = "Done" THEN "synced" ELSE "failed"]
    /\ UNCHANGED <<remote, mirror, version, release_type, mainpc, pc, branches,
                   idx, at, listed, existing, state, console, logi, fnVars>>

\* main() lines 245-251: as_completed yields the finished future of n; its
\* result is stored, or its exception is logged
MainCollect(n) ==
    /\ mainpc = "collect"
    /\ n \notin collected
    /\ pc[n] \in Terminal
    /\ collected' = collected \cup {n}
    /\ results' = IF pc[n] = "Done" THEN [m \in {n} |-> state[n]] @@ results ELSE results
    /\ logged' = [logged EXCEPT ![n] = IF pc[n] = "Done" THEN "synced" ELSE "failed"]
    /\ UNCHANGED <<remote, mirror, version, release_type, mainpc, pc, branches,
                   idx, at, listed, existing, state, console, logi, fnVars>>

\* the loop over as_completed ends after the first future
JoinReady_first_completed == collected # {}

\* as_completed has yielded every future, and the executor has shut down
JoinReady == collected = Names

\* main() line 252: the end of the `with ThreadPoolExecutor()` block
MainJoin ==
    /\ mainpc = "collect"
    /\ JoinReady
    /\ mainpc' = "summary"
    /\ UNCHANGED <<remote, mirror, version, release_type, pc, branches, idx, at, listed, existing,
                   state, results, collected, console, logged, logi, fnVars>>

----------------------------------------------------------------------------
(* src/automation/go.py: the report *)

\* the `-n 20` of the commit log
LOG_LIMIT == 20

\* str.removesuffix(suffix)
removesuffix(t, suffix) ==
    IF suffix # <<>> /\ endswith(t, suffix) THEN SubSeq(t, 1, Len(t) - Len(suffix)) ELSE t

\* the report on the default branch, whatever was resolved
chosen_branch_always_default(repo, st, ver) == repo.default_branch

\* chore if chore in st.branch_tags else repo.default_branch
chosen_branch(repo, st, ver) ==
    IF chore_name(ver) \in DOMAIN st.branch_tags THEN chore_name(ver) ELSE repo.default_branch

\* tags = st.branch_tags[branch].get(pat, []); tag = tags[0] if tags else None
first_tag(st, branch, pat) ==
    LET tags == IF pat \in DOMAIN st.branch_tags[branch]
                THEN st.branch_tags[branch][pat] ELSE <<>>
    IN  IF tags # <<>> THEN tags[1] ELSE None

\* the loop with `break` in place of `continue`: the repos before the first
\* one without an entry in results
Reported_until_missing(res, rs) ==
    LET stop == CHOOSE k \in 1..(Len(rs) + 1) :
                    /\ \A i \in 1..(k - 1) : rs[i].name \in DOMAIN res
                    /\ k <= Len(rs) => rs[k].name \notin DOMAIN res
    IN  SubSeq(rs, 1, stop - 1)

\* `for repo in repos: st = results.get(repo.name); if not st: continue`:
\* the repos of the list rs that have an entry in results, in their order
Reported(res, rs) == SelectSeq(rs, LAMBDA repo : repo.name \in DOMAIN res)

\* main() lines 254-278: the rows of the latest-tags summary
summary_rows(res, ver, rt) ==
    LET sel == Reported(res, repos)
    IN  [i \in 1..Len(sel) |->
            LET repo == sel[i]
                st == res[repo.name]
                pattern == IF rt = "external" THEN repo.external_tag_pattern
                           ELSE repo.internal_tag_pattern
                branch == chosen_branch(repo, st, ver)
            IN  [repo |-> repo.name, pattern |-> pattern,
                 tag |-> first_tag(st, branch, pattern), branch |-> branch]]

\* the link with base = repo_url.rstrip(".git"), which strips characters
compare_url_rstrip(repo_url, tag, branch) ==
    rstrip(repo_url, {".", "g", "i", "t"}) \o <<"/", "c", "o", "m", "p", "a", "r", "e", "/">> \o tag
        \o <<".", ".", ".">> \o branch

\* base = repo.repo_url.removesuffix(".git"); f"{base}/compare/{tag}...{branch}"
compare_url(repo_url, tag, branch) ==
    removesuffix(repo_url, DOT_GIT) \o <<"/", "c", "o", "m", "p", "a", "r", "e", "/">> \o tag
        \o <<".", ".", ".">> \o branch

\* a row whose link is built whether or not a tag was found
compare_row_always_link(repo, st, ver, pat) ==
    LET branch == chosen_branch(repo, st, ver)
        tag == first_tag(st, branch, pat)
    IN  [repo |-> repo.name, link |-> compare_url(repo.repo_url, tag, branch)]

\* one row of a compare table for tag pattern pat
compare_row(repo, st, ver, pat) ==
    LET branch == chosen_branch(repo, st, ver)
        tag == first_tag(st, branch, pat)
    IN  [repo |-> repo.name,
         link |-> IF tag # None THEN compare_url(repo.repo_url, tag, branch) ELSE None]

\* print_external_table: the rows of the table
print_external_table(res, rs, ver) ==
    LET sel == Reported(res, rs)
    IN  [i \in 1..Len(sel) |->
            compare_row(sel[i], res[sel[i].name], ver, sel[i].external_tag_pattern)]

\* print_internal_table: the rows of the table
print_internal_table(res, rs, ver) ==
    LET sel == Reported(res, rs)
    IN  [i \in 1..Len(sel) |->
            compare_row(sel[i], res[sel[i].name], ver, sel[i].internal_tag_pattern)]

\* git rev-parse <branch>
git_rev_parse(m, ref, env) ==
    IF env /\ m.kind = "repo" /\ ref \in DOMAIN m.locals
    THEN [rc |-> 0, out |-> <<m.locals[ref]>>, mirror |-> m]
    ELSE git_fail(m)

\* git rev-list -n 1 <tag>
git_rev_list_1(m, tag, env) ==
    IF env /\ m.kind = "repo" /\ \E t \in m.tags : t.name = tag
    THEN [rc |-> 0, out |-> <<(CHOOSE t \in m.tags : t.name = tag).commit>>, mirror |-> m]
    ELSE git_fail(m)

\* a set of commits, newest first
RECURSIVE NewestFirst(_)
NewestFirst(cs) ==
    IF cs = {} THEN <<>>
    ELSE LET c == CHOOSE x \in cs : \A y \in cs : y <= x
         IN  <<c>> \o NewestFirst(cs \ {c})

\* git log --oneline <tag>..<branch>, without -n
git_log_unlimited(m, tag, branch, env) ==
    IF env /\ m.kind = "repo" /\ branch \in DOMAIN m.locals /\ \E t \in m.tags : t.name = tag
    THEN [rc |-> 0,
          out |-> NewestFirst(Ancestors(m.locals[branch])
                     \ Ancestors((CHOOSE t \in m.tags : t.name = tag).commit)),
          mirror |-> m]
    ELSE git_fail(m)

\* git log --oneline -n 20 <tag>..<branch>: one line per commit
git_log(m, tag, branch, env) ==
    IF env /\ m.kind = "repo" /\ branch \in DOMAIN m.locals /\ \E t \in m.tags : t.name = tag
    THEN [rc |-> 0,
          out |-> Take(NewestFirst(Ancestors(m.locals[branch])
                         \ Ancestors((CHOOSE t \in m.tags : t.name = tag).commit)),
                       LOG_LIMIT),
          mirror |-> m]
    ELSE git_fail(m)

\* show_changes_since_tag: [exc, item, cmds]; item is what it has put on the
\* console: nothing ("error"), the "No changes" line, the header rule alone
\* when `git log` raises after it, or the header rule with the log lines
show_changes_since_tag(repo, m, branch, tag, failAt) ==
    LET head == git_rev_parse(m, branch, failAt # "rev-parse")
        tagc == git_rev_list_1(m, tag, failAt # "rev-list")
        log == git_log(m, tag, branch, failAt # "log")
        none == [kind |-> "error", repo |-> repo.name, tag |-> tag, branch |-> branch,
                 lines |-> <<>>]
    IN  IF head.rc # 0 THEN [exc |-> "RuntimeError", item |-> none, cmds |-> {"rev-parse"}]
        ELSE IF tagc.rc # 0
        THEN [exc |-> "RuntimeError", item |-> none, cmds |-> {"rev-parse", "rev-list"}]
        ELSE IF head.out = tagc.out
        THEN [exc |-> "", item |-> [none EXCEPT !.kind = "no changes"],
              cmds |-> {"rev-parse", "rev-list"}]
        ELSE IF log.rc # 0
        THEN [exc |-> "RuntimeError",
              item |-> [none EXCEPT !.kind = "header printed, no log"],
              cmds |-> {"rev-parse", "rev-list", "log"}]
        ELSE [exc |-> "", item |-> [none EXCEPT !.kind = "changes", !.lines = log.out],
              cmds |-> {"rev-parse", "rev-list", "log"}]

\* main() lines 253-278: the latest-tags summary
MainSummary ==
    /\ mainpc = "summary"
    /\ console' = Append(console,
                    [kind |-> "summary", rows |-> summary_rows(results, version, release_type)])
    /\ mainpc' = "table"
    /\ UNCHANGED <<remote, mirror, version, release_type, pc, branches, idx, at, listed, existing,
                   state, results, collected, logged, logi, fnVars>>

\* main() lines 281-282 and 295: the compare table of the chosen channel
MainTable ==
    /\ mainpc = "table"
    /\ console' = Append(console,
                    [kind |-> "table",
                     rows |-> IF release_type = "external"
                              THEN print_external_table(results, repos, version)
                              ELSE print_internal_table(results, repos, version)])
    /\ mainpc' = "logs"
    /\ logi' = 1
    /\ UNCHANGED <<remote, mirror, version, release_type, pc, branches, idx, at, listed, existing,
                   state, results, collected, logged, fnVars>>

\* main() lines 283-293 and 296-306: one turn of the commit-log loop
MainLog ==
    /\ mainpc = "logs"
    /\ logi <= Len(repos)
    /\ LET repo == repos[logi]
           st == results[repo.name]
           pat == IF release_type = "external" THEN repo.external_tag_pattern
                  ELSE repo.internal_tag_pattern
           branch == chosen_branch(repo, st, version)
           tag == first_tag(st, branch, pat)
       IN  IF repo.name \notin DOMAIN results \/ tag = None
           THEN logi' = logi + 1 /\ UNCHANGED <<mainpc, console>>
           ELSE \E failAt \in {"none", "rev-parse", "rev-list", "log"} :
                    LET r == show_changes_since_tag(repo, mirror[repo.name], branch, tag, failAt)
                    IN  IF r.exc # ""
                        THEN /\ mainpc' = "crashed"
                             /\ console' = IF r.item.kind = "error" THEN console
                                           ELSE Append(console, r.item)
                             /\ UNCHANGED logi
                        ELSE /\ console' = Append(console, r.item)
                             /\ logi' = logi + 1
                             /\ UNCHANGED mainpc
    /\ UNCHANGED <<remote, mirror, version, release_type, pc, branches, idx, at, listed, existing,
                   state, results, collected, logged, fnVars>>

\* main() returns
MainReturn ==
    /\ mainpc = "logs"
    /\ logi > Len(repos)
    /\ mainpc' = "exit"
    /\ UNCHANGED <<remote, mirror, version, release_type, pc, branches, idx, at, listed, existing,
                   state, results, collected, console, logged, logi, fnVars>>

\* `if __name__ == "__main__": main()`: the process has ended when main has
\* returned or an exception has left it
Exited == mainpc \in {"exit", "crashed"}

\* the exit status of the process: 0 after main's return, 1 after a traceback
exit_status == IF mainpc = "exit" THEN 0 ELSE 1

Next ==
    \/ Prompt
    \/ \E n \in Names : TaskStart(n)
    \/ \E n \in Names : TaskSync(n)
    \/ \E n \in Names : TaskBranches(n)
    \/ \E n \in Names : TaskBranchList(n)
    \/ \E n \in Names : TaskCheckout(n)
    \/ \E n \in Names : TaskPull(n)
    \/ \E n \in Names : TaskCollect(n)
    \/ \E n \in Names : TaskReturn(n)
    \/ \E n \in Names : MainCollect(n)
    \/ MainJoin
    \/ MainSummary
    \/ MainTable
    \/ MainLog
    \/ MainReturn

Spec == Init /\ [][Next]_vars

\* the steps of the worker thread that runs process_repo for repository n
Task(n) ==
    \/ TaskStart(n)
    \/ TaskSync(n)
    \/ TaskBranches(n)
    \/ TaskBranchList(n)
    \/ TaskCheckout(n)
    \/ TaskPull(n)
    \/ TaskCollect(n)
    \/ TaskReturn(n)

\* the steps of the main thread once the prompts are answered
Main ==
    \/ \E n \in Names : MainCollect(n)
    \/ MainJoin
    \/ MainSummary
    \/ MainTable
    \/ MainLog
    \/ MainReturn

\* The run with its scheduling: every git subprocess returns, so a thread
\* that can take a step is not suspended for ever; the pool has a worker for
\* each submitted task (ThreadPoolExecutor's default size exceeds len(repos)).
\* Nothing obliges the operator to answer the prompts.
LiveSpec ==
    /\ Init
    /\ [][Next]_vars
    /\ \A n \in Names : WF_vars(Task(n))
    /\ WF_vars(Main)

----------------------------------------------------------------------------
(* The function-level harness: one call of one function on drawn inputs *)

FN == "fn"

\* the orchestrator's variables while no run is going on
OrchIdle ==
    /\ version = <<>>
    /\ release_type = "external"
    /\ mainpc = "idle"
    /\ pc = <<>>
    /\ branches = <<>>
    /\ idx = <<>>
    /\ at = <<>>
    /\ listed = <<>>
    /\ existing = <<>>
    /\ state = <<>>
    /\ results = <<>>
    /\ collected = {}
    /\ console = <<>>
    /\ logged = <<>>
    /\ logi = 0

FnBranchOps == {"branches_to_sync", "seq_branches_to_sync"}

\* texts for the "Base version" prompt: versions, and texts with glob
\* characters: "*", a range, a range that runs backwards, a quoted
\* character in a bracket expression, a POSIX class, and a POSIX class
\* that lacks the "]" of its bracket expression
FnVersions ==
    {<<"v">> \o VER_841, <<"v", "v">> \o VER_841, VER_841, <<"v">> \o VER_840,
     <<"v", "8", ".", "4", ".", "*">>,
     <<"8", ".", "4", ".", "[", "0", "-", "1", "]">>,
     <<"8", ".", "4", ".", "[", "1", "-", "0", "]">>,
     <<"8", ".", "4", ".", "[", "0", "\\", "-", "9", "]">>,
     <<"8", ".", "4", ".", "[", "[", ":", "d", "i", "g", "i", "t", ":", "]", "]">>,
     <<"8", ".", "4", ".", "[", "[", ":", "d", "i", "g", "i", "t", ":", "]">>}

FnPrimaries == {BR_MAIN, BR_CHORE_841}

\* heads next to the primary branch: release branches, a head whose name
\* ends in the ref of one, a head named as the ref of one
\* (refs/heads/refs/heads/...), and a release branch whose suffix ends in
\* a character that is no digit
FnOtherHeads ==
    {BR_CHORE_840, BR_CHORE_841, BR_CHORE_84, BR_CHORE_X, BR_TAIL_841,
     REFS_HEADS \o BR_CHORE_841, CHORE_PREFIX \o <<"8", ".", "4", ".", "-">>}

FnHeadSets == {H \in SUBSET FnOtherHeads : Cardinality(H) <= MaxHeads}

FnInitBranches ==
    \E op \in FnBranchOps, d \in FnPrimaries, w \in BOOLEAN, v \in FnVersions, H \in FnHeadSets :
        /\ fnArgs = [op |-> op, branch |-> d, want |-> w, ver |-> v, patterns |-> <<>>]
        /\ remote = [n \in {FN} |->
                        [heads |-> Heads(H \cup {d}, d), HEAD |-> d, tags |-> {}]]
        /\ mirror = [n \in {FN} |-> NoMirror]

FnTagOps == {"process_repo_collect", "get_latest_tags"}

FnEnsureOps == {"process_repo_sync", "clone_or_fetch_repo"}

\* a mirror after the checkout of the primary and the release branch
SyncedMirror(tags) ==
    Packed([kind |-> "repo", remotes |-> Heads({BR_MAIN, BR_CHORE_841}, BR_MAIN),
         locals |-> Heads({BR_MAIN, BR_CHORE_841}, BR_MAIN), HEAD |-> BR_CHORE_841,
         tags |-> tags])

FnPatternLists == {<<PAT_V>>, <<PAT_INTERNAL>>, <<PAT_OT3>>, <<PAT_V, PAT_INTERNAL>>}

FnInitTags ==
    \E op \in FnTagOps, b \in {BR_MAIN, BR_CHORE_841}, ps \in FnPatternLists,
       T \in {RichTags, FewTags, {TagOther}} :
        /\ fnArgs = [op |-> op, branch |-> b, want |-> FALSE, ver |-> <<>>, patterns |-> ps]
        /\ remote = [n \in {FN} |->
                        [heads |-> Heads({BR_MAIN, BR_CHORE_841}, BR_MAIN),
                         HEAD |-> BR_MAIN, tags |-> T]]
        /\ mirror = [n \in {FN} |-> SyncedMirror(T)]

FnInitEnsure ==
    \E op \in FnEnsureOps, k \in Scenarios,
       m \in {NoMirror, EmptyDir, StaleMirror(BR_MAIN), DivergedMirror(BR_MAIN)} :
        /\ fnArgs = [op |-> op, branch |-> BR_MAIN, want |-> FALSE, ver |-> <<>>,
                     patterns |-> <<>>]
        /\ remote = [n \in {FN} |-> ScenarioRemote(k, BR_MAIN)]
        /\ mirror = [n \in {FN} |-> m]

FnTableOps == {"print_external_table", "print_internal_table"}

\* repository URLs: with ".git" at the end, without it, with it twice, and
\* with ".git" in the middle only
FnUrls ==
    {AllRepos[i].repo_url : i \in 1..Len(AllRepos)}
    \cup {URL_ORG \o <<"r">>, URL_ORG \o <<"r">> \o DOT_GIT \o DOT_GIT,
          <<"h">> \o DOT_GIT \o <<"/", "r">>}

\* the results map of a run over one repository with URL u, whose task
\* resolved the branches brs on a mirror with the tags T
FnInitTable ==
    \E op \in FnTableOps, u \in FnUrls, T \in {RichTags, FewTags, {TagOther}},
       brs \in {<<BR_MAIN>>, <<BR_MAIN, BR_CHORE_841>>} :
        LET repo == [name |-> FN, repo_url |-> u, default_branch |-> BR_MAIN,
                     external_tag_pattern |-> PAT_V, internal_tag_pattern |-> PAT_INTERNAL]
        IN  /\ fnArgs = [op |-> op, repo |-> repo, ver |-> <<"v">> \o VER_841,
                         results |-> [n \in {FN} |->
                            process_repo_collect(repo, SyncedMirror(T), brs, TRUE).state]]
            /\ remote = [n \in {FN} |->
                            [heads |-> Heads({BR_MAIN, BR_CHORE_841}, BR_MAIN),
                             HEAD |-> BR_MAIN, tags |-> T]]
            /\ mirror = [n \in {FN} |-> SyncedMirror(T)]

\* a tag on the newest commit of the side line
TagTip == [name |-> PAT_V \o <<"t", "i", "p">>, time |-> MaxTags + 4, commit |-> MaxCommits]

\* a mirror whose release branch has run on to the end of the side line
LongMirror ==
    Packed([kind |-> "repo",
         remotes |-> [n \in {BR_MAIN, BR_CHORE_841} |-> IF n = BR_MAIN THEN 3 ELSE MaxCommits],
         locals |-> [n \in {BR_MAIN, BR_CHORE_841} |-> IF n = BR_MAIN THEN 3 ELSE MaxCommits],
         HEAD |-> BR_CHORE_841,
         tags |-> {TagV(1), TagV(2), TagV(3), TagV(MaxTags), TagTip}])

FnInitLog ==
    \E b \in {BR_MAIN, BR_CHORE_841}, t \in LongMirror.tags :
        /\ fnArgs = [op |-> "show_changes_since_tag", repo |-> AllRepos[1],
                     branch |-> b, tag |-> t.name]
        /\ remote = [n \in {FN} |->
                        [heads |-> LongMirror.remotes, HEAD |-> BR_MAIN,
                         tags |-> LongMirror.tags]]
        /\ mirror = [n \in {FN} |-> LongMirror]

FnCheckoutOps == {"process_repo_checkout", "ensure_branches_checked_out"}

\* a branch whose name holds the name of the primary branch
BR_MAINTENANCE == BR_MAIN \o <<"t", "e", "n", "a", "n", "c", "e">>

FnBranchNames == {BR_MAIN, BR_MAINTENANCE, BR_CHORE_841}

\* a fetched mirror with the local branches L, each one commit behind the
\* remote's, and H checked out
CheckoutMirror(L, H) ==
    Packed([kind |-> "repo", remotes |-> Heads(FnBranchNames, BR_MAIN),
         locals |-> [n \in L |-> 2], HEAD |-> H, tags |-> {}])

FnInitCheckout ==
    \E op \in FnCheckoutOps, b \in {BR_MAIN, BR_CHORE_841},
       L \in (SUBSET FnBranchNames) \ {{}} :
        \E H \in L :
            /\ fnArgs = [op |-> op, branch |-> b, locals |-> L]
            /\ remote = [n \in {FN} |->
                            [heads |-> Heads(FnBranchNames, BR_MAIN), HEAD |-> BR_MAIN,
                             tags |-> {}]]
            /\ mirror = [n \in {FN} |-> CheckoutMirror(L, H)]

\* a run of the sequential variant: each repository of its list in one of
\* the situations a run can start in
FnInitSeqMain ==
    \E sc \in [Names -> Scenarios] :
        /\ fnArgs = [op |-> "seq_main"]
        /\ remote = [n \in Names |->
                        ScenarioRemote(sc[n], seq_repos[CHOOSE i \in 1..Len(seq_repos) :
                                                         seq_repos[i].name = n].primary_branch)]
        /\ mirror = [n \in Names |->
                        ScenarioMirror(sc[n], seq_repos[CHOOSE i \in 1..Len(seq_repos) :
                                                         seq_repos[i].name = n].primary_branch)]

FnInit ==
    /\ \/ FnInitBranches \/ FnInitTags \/ FnInitEnsure \/ FnInitTable \/ FnInitLog
       \/ FnInitCheckout \/ FnInitSeqMain
    /\ fnRet = NoRet
    /\ OrchIdle

\* repo.branches_to_sync(version) of src/automation/go.py
Call_branches_to_sync ==
    /\ fnArgs.op = "branches_to_sync"
    /\ fnRet = NoRet
    /\ \E net \in BOOLEAN :
        fnRet' = [op |-> fnArgs.op, exc |-> "",
                  value |-> branches_to_sync([default_branch |-> fnArgs.branch],
                                             fnArgs.ver, remote[FN], net),
                  net |-> net, cmds |-> {"ls-remote"}]
    /\ UNCHANGED <<remote, mirror, fnArgs, orchVars>>

\* repo.branches_to_sync() of src/go.py
Call_seq_branches_to_sync ==
    /\ fnArgs.op = "seq_branches_to_sync"
    /\ fnRet = NoRet
    /\ \E net \in BOOLEAN :
        LET r == seq_branches_to_sync([primary_branch |-> fnArgs.branch,
                                       want_chore_release |-> fnArgs.want],
                                      remote[FN], net)
        IN  /\ fnRet' = [op |-> fnArgs.op, exc |-> r.exc, value |-> r.value,
                         net |-> net, cmds |-> r.cmds]
    /\ UNCHANGED <<remote, mirror, fnArgs, orchVars>>

\* the tag collection of process_repo (src/automation/go.py) on the
\* branches <<primary, release>>
Call_process_repo_collect ==
    /\ fnArgs.op = "process_repo_collect"
    /\ fnRet = NoRet
    /\ \E env \in BOOLEAN :
        LET r == process_repo_collect(
                    [external_tag_pattern |-> fnArgs.patterns[1],
                     internal_tag_pattern |-> fnArgs.patterns[Len(fnArgs.patterns)]],
                    mirror[FN], <<BR_MAIN, BR_CHORE_841>>, env)
        IN  fnRet' = [op |-> fnArgs.op, exc |-> r.exc, value |-> r.state,
                      net |-> env, cmds |-> {"tag"}]
    /\ UNCHANGED <<remote, mirror, fnArgs, orchVars>>

\* get_latest_tags(local_path, branch, patterns) of src/go.py
Call_get_latest_tags ==
    /\ fnArgs.op = "get_latest_tags"
    /\ fnRet = NoRet
    /\ \E env \in BOOLEAN :
        LET r == get_latest_tags(mirror[FN], fnArgs.branch, fnArgs.patterns, TagWindow, env)
        IN  fnRet' = [op |-> fnArgs.op, exc |-> r.exc, value |-> r.value,
                      net |-> env, cmds |-> {"tag"}]
    /\ UNCHANGED <<remote, mirror, fnArgs, orchVars>>

\* one run of a clone-or-fetch step; fnRet.value lists the outcome of each
\* run so far, at most two
EnsureRun(r, net) ==
    /\ Len(fnRet.value) < 2
    /\ mirror' = [mirror EXCEPT ![FN] = r.mirror]
    /\ fnRet' = [op |-> fnArgs.op, exc |-> r.exc, value |-> Append(fnRet.value, r),
                 net |-> net, cmds |-> r.cmds]
    /\ UNCHANGED <<remote, fnArgs, orchVars>>

\* the clone-or-fetch step of process_repo (src/automation/go.py)
Call_process_repo_sync ==
    /\ fnArgs.op = "process_repo_sync"
    /\ \E net \in BOOLEAN : EnsureRun(process_repo_sync(mirror[FN], remote[FN], net), net)

\* clone_or_fetch_repo(repo) of src/go.py
Call_clone_or_fetch_repo ==
    /\ fnArgs.op = "clone_or_fetch_repo"
    /\ \E net \in BOOLEAN : EnsureRun(clone_or_fetch_repo(mirror[FN], remote[FN], net), net)

\* print_external_table / print_internal_table(results, repos, version)
Call_print_table ==
    /\ fnArgs.op \in FnTableOps
    /\ fnRet = NoRet
    /\ fnRet' = [op |-> fnArgs.op, exc |-> "",
                 value |-> IF fnArgs.op = "print_external_table"
                           THEN print_external_table(fnArgs.results, <<fnArgs.repo>>, fnArgs.ver)
                           ELSE print_internal_table(fnArgs.results, <<fnArgs.repo>>, fnArgs.ver),
                 net |-> TRUE, cmds |-> {}]
    /\ UNCHANGED <<remote, mirror, fnArgs, orchVars>>

\* show_changes_since_tag(repo, branch, tag); value is what it prints
Call_show_changes_since_tag ==
    /\ fnArgs.op = "show_changes_since_tag"
    /\ fnRet = NoRet
    /\ \E failAt \in {"none", "rev-parse", "rev-list", "log"} :
        LET r == show_changes_since_tag(fnArgs.repo, mirror[FN], fnArgs.branch,
                                        fnArgs.tag, failAt)
        IN  fnRet' = [op |-> fnArgs.op, exc |-> r.exc, value |-> r.item,
                      net |-> failAt = "none", cmds |-> r.cmds]
    /\ UNCHANGED <<remote, mirror, fnArgs, orchVars>>

\* one turn of the checkout loop of process_repo (src/automation/go.py)
Call_process_repo_checkout ==
    /\ fnArgs.op = "process_repo_checkout"
    /\ fnRet = NoRet
    /\ \E failAt \in {"none", "branch", "checkout", "pull"} :
        LET r == process_repo_checkout(mirror[FN], remote[FN], fnArgs.branch, failAt)
        IN  /\ mirror' = [mirror EXCEPT ![FN] = r.mirror]
            /\ fnRet' = [op |-> fnArgs.op, exc |-> r.exc, value |-> <<>>,
                         net |-> failAt = "none", cmds |-> r.cmds]
    /\ UNCHANGED <<remote, fnArgs, orchVars>>

\* ensure_branches_checked_out(repo, [branch]) of src/go.py
Call_ensure_branches_checked_out ==
    /\ fnArgs.op = "ensure_branches_checked_out"
    /\ fnRet = NoRet
    /\ \E failAt \in {"none", "branch", "checkout", "pull", "log"} :
        LET r == ensure_branches_checked_out(mirror[FN], remote[FN], <<fnArgs.branch>>, failAt)
        IN  /\ mirror' = [mirror EXCEPT ![FN] = r.mirror]
            /\ fnRet' = [op |-> fnArgs.op, exc |-> r.exc, value |-> r.summary,
                         net |-> failAt = "none", cmds |-> r.cmds]
    /\ UNCHANGED <<remote, fnArgs, orchVars>>

\* main() of src/go.py, one step per call or loop turn. fnRet holds where
\* main is: `turn` is the index in `repos` of the repository of the loop's
\* turn, `at` the call main is at ("next" stands for the head of the loop),
\* `branches` the local of that name, `idx` how many entries the loop of
\* the call has done, `summary` the branches that have a row in the summary
\* so far, `rows` the rows of the tags table so far, value what main has
\* printed: for each turn the rule with the repository's name, the sync
\* summary table and the tags table. An exception of a call leaves main: no
\* try surrounds the loop.
Seq_main_enter ==
    /\ fnArgs.op = "seq_main"
    /\ fnRet = NoRet
    /\ fnRet' = [op |-> "seq_main", exc |-> "", value |-> <<>>, net |-> TRUE, cmds |-> {},
                 turn |-> 0, at |-> "next", branches |-> <<>>, idx |-> 0,
                 summary |-> <<>>, rows |-> <<>>]
    /\ UNCHANGED <<remote, mirror, fnArgs, orchVars>>

\* the repository of the turn that is going on
SeqRepo == seq_repos[fnRet.turn]

\* main has left with the exception exc, after the git commands cmds
SeqRaise(exc, cmds) ==
    fnRet' = [fnRet EXCEPT !.exc = exc, !.at = "crashed", !.net = FALSE,
                           !.cmds = @ \cup cmds]

\* for repo in repos: console.rule(...), or the end of main
Seq_main_next ==
    /\ fnRet.op = "seq_main"
    /\ fnRet.at = "next"
    /\ IF fnRet.turn = Len(seq_repos)
       THEN fnRet' = [fnRet EXCEPT !.at = "returned"]
       ELSE fnRet' = [fnRet EXCEPT
                        !.turn = @ + 1, !.at = "clone_or_fetch_repo",
                        !.branches = <<>>, !.idx = 0, !.summary = <<>>, !.rows = <<>>,
                        !.value = Append(@, [kind |-> "rule",
                                             repo |-> seq_repos[fnRet.turn + 1].name,
                                             rows |-> <<>>])]
    /\ UNCHANGED <<remote, mirror, fnArgs, orchVars>>

\* main after clone_or_fetch_repo(repo) with the outcome r
SeqSynced(r) ==
    /\ mirror' = [mirror EXCEPT ![SeqRepo.name] = r.mirror]
    /\ IF r.exc # "" THEN SeqRaise(r.exc, r.cmds)
       ELSE fnRet' = [fnRet EXCEPT !.at = "branches_to_sync", !.cmds = @ \cup r.cmds]

\* clone_or_fetch_repo(repo)
Seq_main_sync ==
    /\ fnRet.op = "seq_main"
    /\ fnRet.at = "clone_or_fetch_repo"
    /\ \E net \in BOOLEAN :
        SeqSynced(clone_or_fetch_repo(mirror[SeqRepo.name], remote[SeqRepo.name], net))
    /\ UNCHANGED <<remote, fnArgs, orchVars>>

\* main after repo.branches_to_sync() with the outcome r
SeqResolved(r) ==
    IF r.exc # "" THEN SeqRaise(r.exc, r.cmds)
    ELSE fnRet' = [fnRet EXCEPT !.at = "ensure_branches_checked_out",
                                !.branches = r.value, !.cmds = @ \cup r.cmds]

\* branches = repo.branches_to_sync()
Seq_main_branches ==
    /\ fnRet.op = "seq_main"
    /\ fnRet.at = "branches_to_sync"
    /\ \E net \in BOOLEAN :
        SeqResolved(seq_branches_to_sync(SeqRepo, remote[SeqRepo.name], net))
    /\ UNCHANGED <<remote, mirror, fnArgs, orchVars>>

\* main after a turn of the loop of ensure_branches_checked_out with the
\* outcome r
SeqCheckedOut(r) ==
    /\ mirror' = [mirror EXCEPT ![SeqRepo.name] = r.mirror]
    /\ IF r.exc # "" THEN SeqRaise(r.exc, r.cmds)
       ELSE fnRet' = [fnRet EXCEPT !.idx = @ + 1, !.cmds = @ \cup r.cmds,
                                   !.summary = @ \o r.summary]

\* branch_summary = ensure_branches_checked_out(repo, branches): a turn of
\* its loop over the branches; after the last one, the summary table
Seq_main_ensure ==
    /\ fnRet.op = "seq_main"
    /\ fnRet.at = "ensure_branches_checked_out"
    /\ IF fnRet.idx = Len(fnRet.branches)
       THEN /\ fnRet' = [fnRet EXCEPT
                            !.at = "get_latest_tags", !.idx = 0,
                            !.value = Append(@, [kind |-> "summary", repo |-> SeqRepo.name,
                                                 rows |-> fnRet.summary])]
            /\ UNCHANGED mirror
       ELSE \E failAt \in {"none", "branch", "checkout", "pull", "log"} :
            SeqCheckedOut(ensure_branches_checked_out(
                            mirror[SeqRepo.name], remote[SeqRepo.name],
                            <<fnRet.branches[fnRet.idx + 1]>>, failAt))
    /\ UNCHANGED <<remote, fnArgs, orchVars>>

\* main after the get_latest_tags calls for a branch with the outcome r
SeqRow(branch, r) ==
    IF r.exc # "" THEN SeqRaise(r.exc, {"tag"})
    ELSE fnRet' = [fnRet EXCEPT
                     !.idx = @ + 1, !.cmds = @ \cup {"tag"},
                     !.rows = Append(@, [branch |-> branch, tags |-> r.value])]

\* for branch, _ in branch_summary: the row of get_latest_tags calls of a
\* branch; after the last one, the tags table
Seq_main_tags ==
    /\ fnRet.op = "seq_main"
    /\ fnRet.at = "get_latest_tags"
    /\ IF fnRet.idx = Len(fnRet.summary)
       THEN fnRet' = [fnRet EXCEPT
                        !.at = "next",
                        !.value = Append(@, [kind |-> "tags", repo |-> SeqRepo.name,
                                             rows |-> fnRet.rows])]
       ELSE \E env \in BOOLEAN :
            SeqRow(fnRet.summary[fnRet.idx + 1],
                   seq_tag_cells(mirror[SeqRepo.name], fnRet.summary[fnRet.idx + 1],
                                 SeqRepo.tag_patterns, env))
    /\ UNCHANGED <<remote, mirror, fnArgs, orchVars>>

FnNext ==
    \/ Call_branches_to_sync
    \/ Call_seq_branches_to_sync
    \/ Call_process_repo_collect
    \/ Call_get_latest_tags
    \/ Call_process_repo_sync
    \/ Call_clone_or_fetch_repo
    \/ Call_print_table
    \/ Call_show_changes_since_tag
    \/ Call_process_repo_checkout
    \/ Call_ensure_branches_checked_out
    \/ Seq_main_enter
    \/ Seq_main_next
    \/ Seq_main_sync
    \/ Seq_main_branches
    \/ Seq_main_ensure
    \/ Seq_main_tags

FnSpec == FnInit /\ [][FnNext]_vars

----------------------------------------------------------------------------
(* Claims about branch resolution, checked under FnSpec *)

FnHeads == DOMAIN remote[FN].heads

\* the version from its first character that is not "v"
WithoutLeadingVs(v) ==
    LET k == CHOOSE k \in 0..Len(v) :
                /\ \A i \in 1..k : v[i] = "v"
                /\ k < Len(v) => v[k + 1] # "v"
    IN  SubSeq(v, k + 1, Len(v))

\* C4 as stated, for a remote-head query that succeeds: branches_to_sync(V)
\* contains 'chore_release-' + (V without its leading 'v') if and only if a
\* remote head of exactly that name exists, and is exactly [default_branch]
\* when it does not exist.
C4_AsStated ==
    (fnRet.op = "branches_to_sync" /\ fnRet.net) =>
        LET chore == CHORE_PREFIX \o WithoutLeadingVs(fnArgs.ver)
        IN  /\ (chore \in Range(fnRet.value)) <=> (chore \in FnHeads)
            /\ chore \notin FnHeads => fnRet.value = <<fnArgs.branch>>

\* C5: with want_chore_release = false, branches_to_sync of src/go.py returns
\* exactly [primary_branch], raises nothing and issues no remote query.
C5_NoReleaseBranchWanted ==
    (fnRet.op = "seq_branches_to_sync" /\ ~fnArgs.want) =>
        /\ fnRet.exc = ""
        /\ fnRet.value = <<fnArgs.branch>>
        /\ "ls-remote" \notin fnRet.cmds

\* C5 witness: the flag is off, the remote has a release branch that the
\* scan would pick, and the function has returned
C5_Witness ==
    /\ fnRet.op = "seq_branches_to_sync"
    /\ ~fnArgs.want
    /\ fnRet.net
    /\ BR_CHORE_840 \in FnHeads
    /\ fnArgs.branch = BR_MAIN

\* C6 as stated: the resolved branch list (of either variant) has the
\* primary branch first and holds no branch name twice.
C6_AsStated ==
    (fnRet.op \in FnBranchOps /\ fnRet.exc = "") =>
        /\ fnRet.value # <<>>
        /\ fnRet.value[1] = fnArgs.branch
        /\ NoDuplicates(fnRet.value)

----------------------------------------------------------------------------
(* Claims about the run of the parallel orchestrator, checked under Spec *)

AllTerminal == \A n \in Names : pc[n] \in Terminal

\* C1: a git failure inside process_repo for one repository stops no other
\* task: once the run is past the join and every task has ended, each
\* repository whose task returned has its RepoState in the result map.
C1_FailureIsolated ==
    (mainpc \notin {"prompt", "collect"} /\ AllTerminal) =>
        \A n \in Names :
            pc[n] = "Done" => (n \in DOMAIN results /\ results[n] = state[n])

\* C1 witness: the run has ended, one task failed, another one's state is
\* in the result map
C1_Witness ==
    /\ mainpc = "exit"
    /\ \E f, d \in Names :
        /\ pc[f] = "Failed"
        /\ pc[d] = "Done"
        /\ d \in DOMAIN results

\* C2: join barrier: nothing of the report (summary, compare table, commit
\* log) is on the console while a task is neither Done nor Failed.
C2_JoinBarrier ==
    (console # <<>> \/ mainpc \in {"summary", "table", "logs", "exit"}) => AllTerminal

\* C2 witness: the summary and the compare table are printed, after a run
\* in which one task failed and another returned
C2_Witness ==
    /\ Len(console) >= 2
    /\ console[1].kind = "summary"
    /\ console[2].kind = "table"
    /\ \E f, d \in Names : pc[f] = "Failed" /\ pc[d] = "Done"

TaskTransitions ==
    { <<"Pending", "Syncing">>, <<"Syncing", "BranchResolved">>,
      <<"BranchResolved", "TagsCollected">>, <<"TagsCollected", "Done">>,
      <<"Syncing", "Failed">>, <<"BranchResolved", "Failed">> }

\* C3: a task moves only along Pending -> Syncing -> BranchResolved ->
\* TagsCollected -> Done; Failed is entered from Syncing or BranchResolved
\* only; nothing leaves Done or Failed.
C3_TaskStateMachine ==
    [][\A n \in Names : pc'[n] # pc[n] => <<pc[n], pc'[n]>> \in TaskTransitions]_vars

\* C3 witness: one task is Done, another one is Failed after its clone had
\* succeeded (it failed in BranchResolved), and main has seen both
C3_Witness ==
    /\ collected = Names
    /\ \E f, d \in Names :
        /\ pc[d] = "Done"
        /\ pc[f] = "Failed"
        /\ remote[f].tags = RichTags
        /\ mirror[f].kind = "repo"

----------------------------------------------------------------------------
(* Claims about the RepoState of process_repo, checked under Spec *)

\* the repositories whose task has built its RepoState
WithState == {n \in Names : pc[n] \in {"TagsCollected", "Done"}}

Patterns(n) == {RepoOf(n).external_tag_pattern, RepoOf(n).internal_tag_pattern}

\* the tags of n's mirror that start with pat, on branch br
TagsOf(n, pat) == {t \in mirror[n].tags : startswith(t.name, pat)}

TagsOn(n, pat, br) == {t \in TagsOf(n, pat) : t.commit \in Ancestors(mirror[n].locals[br])}

\* C8: overall_tags[P] names a tag of the mirror that starts with P and that
\* no tag starting with P is newer than, whatever branch holds it; it is
\* None exactly when no tag of the mirror starts with P.
C8_OverallLatest ==
    \A n \in WithState : \A pat \in Patterns(n) :
        LET latest == state[n].overall_tags[pat]
        IN  IF TagsOf(n, pat) = {} THEN latest = None
            ELSE \E t \in TagsOf(n, pat) :
                    /\ latest = t.name
                    /\ \A u \in TagsOf(n, pat) : u.time <= t.time

\* C8 witness: the overall tag of the release pattern sits on the release
\* branch only, a newer tag of the other pattern exists, and a repository
\* without a tag of the pattern reports None
C8_Witness ==
    \E n \in WithState :
        LET d == RepoOf(n).default_branch
        IN  /\ d \in DOMAIN state[n].branch_tags
            /\ state[n].overall_tags[PAT_V] = TagV(MaxTags).name
            /\ TagV(MaxTags) \notin TagsOn(n, PAT_V, d)
            /\ \E u \in mirror[n].tags : u.time > TagV(MaxTags).time
            /\ \E k \in WithState : state[k].overall_tags[PAT_V] = None

\* C9: branch_tags has exactly the resolved branches as keys; under each,
\* every declared pattern has an entry; an entry has at most 7 tags, all
\* different, taken from the branch's tags of the pattern, none older than
\* the next and none older than a tag that was left out (so it is the
\* listing's first 7).
C9_BranchTagsShape ==
    \A n \in WithState :
        /\ pc[n] = "TagsCollected" => DOMAIN state[n].branch_tags = Range(branches[n])
        /\ \A br \in DOMAIN state[n].branch_tags :
            /\ DOMAIN state[n].branch_tags[br] = Patterns(n)
            /\ \A pat \in Patterns(n) :
                LET entry == state[n].branch_tags[br][pat]
                    all == TagsOn(n, pat, br)
                    kept == {t \in all : t.name \in Range(entry)}
                IN  /\ Len(entry) <= 7
                    /\ Len(entry) = (IF Cardinality(all) < 7 THEN Cardinality(all) ELSE 7)
                    /\ NoDuplicates(entry)
                    /\ Cardinality(kept) = Len(entry)
                    /\ \A t \in kept, u \in all \ kept : t.time >= u.time
                    /\ \A i, j \in 1..Len(entry) :
                        i < j => \A t, u \in kept :
                            (t.name = entry[i] /\ u.name = entry[j]) => t.time >= u.time

\* C9 witness: a returned state with two branches, one entry cut to 7 tags
\* out of more, and one empty entry
C9_Witness ==
    \E n \in Names :
        /\ pc[n] = "Done"
        /\ Cardinality(DOMAIN state[n].branch_tags) = 2
        /\ \E br \in DOMAIN state[n].branch_tags :
            /\ Len(state[n].branch_tags[br][PAT_V]) = 7
            /\ Cardinality(TagsOn(n, PAT_V, br)) > 7
        /\ \E k \in Names : \E br \in DOMAIN state[k].branch_tags :
            state[k].branch_tags[br][PAT_INTERNAL] = <<>>

----------------------------------------------------------------------------
(* Claims about tag listings and about clone-or-fetch, checked under FnSpec *)

FnTag(name) == CHOOSE t \in mirror[FN].tags : t.name = name

\* the tag sequences a call has returned, each with its pattern and branch
FnListings ==
    IF fnRet.exc # "" THEN {}
    ELSE IF fnRet.op = "get_latest_tags" /\ Len(fnArgs.patterns) = 1
    THEN {[pat |-> fnArgs.patterns[1], br |-> fnArgs.branch, tags |-> fnRet.value]}
    ELSE IF fnRet.op = "process_repo_collect"
    THEN {[pat |-> p, br |-> b, tags |-> fnRet.value.branch_tags[b][p]] :
            b \in DOMAIN fnRet.value.branch_tags, p \in Range(fnArgs.patterns)}
    ELSE {}

\* every tag of a listing starts with the pattern and is reachable from the branch
PrefixedAndMerged(l) ==
    \A i \in 1..Len(l.tags) :
        /\ startswith(l.tags[i], l.pat)
        /\ \E t \in mirror[FN].tags :
            t.name = l.tags[i] /\ t.commit \in Ancestors(mirror[FN].locals[l.br])

\* C7 as stated: each tag of a listing is strictly newer than the next one,
\* also when tags share a timestamp; each starts with P and is reachable
\* from B.
C7_AsStated ==
    \A l \in FnListings :
        /\ PrefixedAndMerged(l)
        /\ \A i \in 1..(Len(l.tags) - 1) : FnTag(l.tags[i]).time > FnTag(l.tags[i + 1]).time

\* C7: in the sequence of get_latest_tags, and in each per-branch sequence of
\* process_repo, no tag is older than the one after it (tags of one
\* timestamp stand next to each other), each tag starts with P and each is
\* reachable from B.
C7_NewestFirst ==
    \A l \in FnListings :
        /\ PrefixedAndMerged(l)
        /\ \A i \in 1..(Len(l.tags) - 1) : FnTag(l.tags[i]).time >= FnTag(l.tags[i + 1]).time

\* C7 witness: a listing whose two newest tags share their timestamp, and
\* which leaves out a tag of the pattern that is not on the branch
C7_Witness ==
    \E l \in FnListings :
        /\ Len(l.tags) >= 2
        /\ FnTag(l.tags[1]).time = FnTag(l.tags[2]).time
        /\ \E t \in mirror[FN].tags :
            startswith(t.name, l.pat) /\ t.name \notin Range(l.tags)

\* C10: when clone-or-fetch has run twice on an unchanged remote and the
\* first run succeeded, the second run is a fetch and the mirror has the
\* branches and tags it had after the first run.
C10_EnsureIdempotent ==
    (fnRet.op \in FnEnsureOps /\ Len(fnRet.value) = 2 /\ fnRet.value[1].exc = "") =>
        LET first == fnRet.value[1].mirror
            second == fnRet.value[2].mirror
        IN  /\ fnRet.value[2].cmds = {"fetch"}
            /\ second.remotes = first.remotes
            /\ second.locals = first.locals
            /\ second.tags = first.tags

\* C10 witness: a clone that brought branches and tags, then a successful fetch
C10_Witness ==
    /\ fnRet.op \in FnEnsureOps
    /\ Len(fnRet.value) = 2
    /\ fnRet.value[1].exc = "" /\ fnRet.value[1].cmds = {"clone"}
    /\ fnRet.value[2].exc = "" /\ fnRet.value[2].cmds = {"fetch"}
    /\ mirror[FN].tags = RichTags
    /\ BR_CHORE_841 \in DOMAIN mirror[FN].remotes

----------------------------------------------------------------------------
(* Claims about the compare tables, checked under FnSpec *)

\* the tag pattern a table is about
TablePattern == IF fnArgs.op = "print_external_table" THEN PAT_V ELSE PAT_INTERNAL

\* the branch the table's repository is reported on
TableBranch ==
    IF BR_CHORE_841 \in DOMAIN fnArgs.results[FN].branch_tags THEN BR_CHORE_841 ELSE BR_MAIN

\* U with one trailing ".git" removed if present, otherwise U
WithoutDotGit(u) ==
    IF Len(u) >= 4 /\ SubSeq(u, Len(u) - 3, Len(u)) = <<".", "g", "i", "t">>
    THEN SubSeq(u, 1, Len(u) - 4) ELSE u

\* C11: in the external and in the internal table, a link that is rendered
\* is exactly (U without one trailing ".git") + "/compare/" + T + "..." + B,
\* T the newest tag of the table's pattern on the chosen branch B.
C11_CompareLink ==
    fnRet.op \in FnTableOps =>
        \A i \in 1..Len(fnRet.value) :
            fnRet.value[i].link # None =>
                LET tags == fnArgs.results[FN].branch_tags[TableBranch][TablePattern]
                IN  /\ tags # <<>>
                    /\ fnRet.value[i].link =
                        WithoutDotGit(fnArgs.repo.repo_url)
                        \o <<"/", "c", "o", "m", "p", "a", "r", "e", "/">> \o tags[1]
                        \o <<".", ".", ".">> \o TableBranch

\* C11 witness: a link of the internal table for a URL that ends in
\* ".git.git", on the release branch
C11_Witness ==
    /\ fnRet.op = "print_internal_table"
    /\ Len(fnRet.value) = 1
    /\ fnRet.value[1].link # None
    /\ endswith(fnArgs.repo.repo_url, DOT_GIT \o DOT_GIT)
    /\ endswith(fnRet.value[1].link, <<".", ".", ".">> \o BR_CHORE_841)

----------------------------------------------------------------------------
(* Claims about the report of a run, checked under Spec *)

\* the tag pattern of the selected channel
ChannelPattern(n) ==
    IF release_type = "external" THEN RepoOf(n).external_tag_pattern
    ELSE RepoOf(n).internal_tag_pattern

\* the release-preparation branch of the run's version
ReleaseBranch == CHORE_PREFIX \o WithoutLeadingVs(version)

\* the branch a recorded repository is to be reported on
ExpectedBranch(n) ==
    IF ReleaseBranch \in DOMAIN results[n].branch_tags THEN ReleaseBranch
    ELSE RepoOf(n).default_branch

\* the console holds the summary first, the compare table second, then
\* what show_changes_since_tag printed
SummaryPrinted == Len(console) >= 1

TablePrinted == Len(console) >= 2

RowsOf(item, n) == {i \in 1..Len(item.rows) : item.rows[i].repo = n}

LogItems == {console[i] : i \in 3..Len(console)}

\* the commit log of n has been asked for: it is printed, or it raised
LogRequested(n) ==
    \/ \E item \in LogItems : item.repo = n
    \/ mainpc = "crashed" /\ repos[logi].name = n

\* the recorded repositories without a tag of the channel on their branch
Tagless ==
    {n \in DOMAIN results :
        /\ ExpectedBranch(n) \in DOMAIN results[n].branch_tags
        /\ results[n].branch_tags[ExpectedBranch(n)][ChannelPattern(n)] = <<>>}

\* C12: a recorded repository whose chosen branch has no tag of the
\* channel's pattern has one row in the compare table, with None and no
\* link, and its commit log is never asked for (so it cannot fail the run).
C12_MissingTag ==
    \A n \in Tagless :
        /\ TablePrinted =>
            /\ Cardinality(RowsOf(console[2], n)) = 1
            /\ \A i \in RowsOf(console[2], n) : console[2].rows[i].link = None
        /\ ~LogRequested(n)

\* C12 witness: the run has ended; one repository had no tag and a None row,
\* another one had a tag, a link and its commit log
C12_Witness ==
    /\ mainpc = "exit"
    /\ \E n \in Tagless : RowsOf(console[2], n) # {}
    /\ \E k \in DOMAIN results \ Tagless :
        /\ \E i \in RowsOf(console[2], k) : console[2].rows[i].link # None
        /\ LogRequested(k)

----------------------------------------------------------------------------
(* Claims about show_changes_since_tag, checked under FnSpec *)

\* the commits of the branch that the tag does not reach
CommitsSince(tagName, branch) ==
    Ancestors(mirror[FN].locals[branch])
        \ Ancestors((CHOOSE t \in mirror[FN].tags : t.name = tagName).commit)

\* C13: when the tag's commit is the branch tip, show_changes_since_tag
\* prints "no changes" and no log line; otherwise it prints commits that
\* lie between the tag and the tip, all of them up to 20 and never more.
C13_ChangesSinceTag ==
    (fnRet.op = "show_changes_since_tag" /\ fnRet.exc = "") =>
        LET tip == mirror[FN].locals[fnArgs.branch]
            tagc == (CHOOSE t \in mirror[FN].tags : t.name = fnArgs.tag).commit
            since == CommitsSince(fnArgs.tag, fnArgs.branch)
            lines == fnRet.value.lines
        IN  IF tip = tagc
            THEN fnRet.value.kind = "no changes" /\ lines = <<>>
            ELSE /\ fnRet.value.kind = "changes"
                 /\ Len(lines) <= 20
                 /\ Len(lines) = (IF Cardinality(since) < 20 THEN Cardinality(since) ELSE 20)
                 /\ NoDuplicates(lines)
                 /\ Range(lines) \subseteq since

\* C13 witness: more than 20 commits lie between the tag and the tip, and
\* 20 lines are printed
C13_Witness ==
    /\ fnRet.op = "show_changes_since_tag"
    /\ fnRet.exc = ""
    /\ fnRet.value.kind = "changes"
    /\ Cardinality(CommitsSince(fnArgs.tag, fnArgs.branch)) > 20
    /\ Len(fnRet.value.lines) = 20

----------------------------------------------------------------------------
(* Claims about the rows of the report, checked under Spec *)

\* C14: for a recorded repository the summary row, the compare link and the
\* commit log all name one branch: the release-preparation branch if it is
\* among the repository's resolved branches, else the primary branch; that
\* branch is a key of the repository's branch_tags.
C14_SameBranch ==
    \A n \in DOMAIN results :
        LET b == ExpectedBranch(n)
        IN  /\ b \in DOMAIN results[n].branch_tags
            /\ SummaryPrinted =>
                \A i \in RowsOf(console[1], n) : console[1].rows[i].branch = b
            /\ TablePrinted =>
                \A i \in RowsOf(console[2], n) :
                    console[2].rows[i].link # None =>
                        endswith(console[2].rows[i].link, <<".", ".", ".">> \o b)
            /\ \A item \in LogItems : item.repo = n => item.branch = b

\* C14 witness: at the end of a run, one repository is reported on its
\* release branch in all three places and another one on its primary branch
C14_Witness ==
    /\ mainpc = "exit"
    /\ \E n \in DOMAIN results :
        /\ ExpectedBranch(n) = ReleaseBranch
        /\ RowsOf(console[1], n) # {}
        /\ \E i \in RowsOf(console[2], n) : console[2].rows[i].link # None
        /\ \E item \in LogItems : item.repo = n
    /\ \E k \in DOMAIN results :
        /\ ExpectedBranch(k) = RepoOf(k).default_branch
        /\ RowsOf(console[1], k) # {}


\* the names of the repositories whose task returned, in the order of `repos`
DoneNames ==
    LET done == SelectSeq(repos, LAMBDA repo : pc[repo.name] = "Done")
    IN  [i \in 1..Len(done) |-> done[i].name]

RowNames(item) == [i \in 1..Len(item.rows) |-> item.rows[i].repo]

\* C15: a repository whose task failed has no entry in results, no row in
\* the summary, no row in the compare table and no commit log, and its task
\* does not run again; the rows of the summary and of the table are those
\* of the repositories whose task returned, one each, in the order of the
\* list.
C15_FailedExcluded ==
    /\ \A n \in Names :
        pc[n] = "Failed" =>
            /\ n \notin DOMAIN results
            /\ SummaryPrinted => RowsOf(console[1], n) = {}
            /\ TablePrinted => RowsOf(console[2], n) = {}
            /\ ~LogRequested(n)
    /\ \A n \in collected : pc[n] \in Terminal
    /\ SummaryPrinted => RowNames(console[1]) = DoneNames
    /\ TablePrinted => RowNames(console[2]) = DoneNames

\* C15 witness: the table is printed after a run in which the first
\* repository of the list failed and a later one returned
C15_Witness ==
    /\ TablePrinted
    /\ pc[repos[1].name] = "Failed"
    /\ DoneNames # <<>>
    /\ RowNames(console[2]) = DoneNames

----------------------------------------------------------------------------
(* Claims about failed repositories and failures after the join, under Spec *)

\* C16 as stated: every repository whose task failed has a row in the
\* summary and in the compare table (a row that carries an error marker).
C16_AsStated ==
    \A n \in Names :
        pc[n] = "Failed" =>
            /\ SummaryPrinted => RowsOf(console[1], n) # {}
            /\ TablePrinted => RowsOf(console[2], n) # {}

\* C17 as stated: the process ends with exit status 0 only if every
\* repository reached Done.
C17_AsStated ==
    (Exited /\ exit_status = 0) => \A n \in Names : pc[n] = "Done"

\* the task of n failed at its release branch, whose local copy and remote
\* counterpart have diverged, after its primary branch had been checked out
\* and brought up to the remote's tip
FailedAtDivergedBranch(n) ==
    LET d == RepoOf(n).default_branch
        m == mirror[n]
    IN  /\ pc[n] = "Failed"
        /\ m.kind = "repo"
        /\ m.HEAD = ReleaseBranch
        /\ ReleaseBranch \in DOMAIN m.locals /\ ReleaseBranch \in DOMAIN remote[n].heads
        /\ m.locals[ReleaseBranch] \notin Ancestors(remote[n].heads[ReleaseBranch])
        /\ remote[n].heads[ReleaseBranch] \notin Ancestors(m.locals[ReleaseBranch])
        /\ d \in DOMAIN m.locals
        /\ m.locals[d] = remote[n].heads[d]

\* C18 as stated: a repository that failed at a diverged branch is Failed,
\* and its branch that was checked out before is still reported with its
\* tags: the repository has an entry in results and a row in the summary.
C18_AsStated ==
    \A n \in Names :
        (SummaryPrinted /\ FailedAtDivergedBranch(n)) =>
            /\ n \in DOMAIN results
            /\ RowsOf(console[1], n) # {}

\* C20 as stated: no git failure leaves main, the commit-log phase after
\* the join included.
C20_AsStated == mainpc # "crashed"

----------------------------------------------------------------------------
(* Claims about the discovery of the latest release branch, under FnSpec *)

\* the text of a chore_release-* branch name after the prefix
Suffix(h) == SubSeq(h, Len(CHORE_PREFIX) + 1, Len(h))

\* the remote heads chore_release-<X.Y.Z> whose suffix parses as a version
ParseableReleaseHeads ==
    {h \in FnHeads : startswith(h, CHORE_PREFIX) /\ semver_valid(Suffix(h))}

\* C19 as stated: with the remote in reach, the discovery never fails; it
\* yields the chore_release-* head of the greatest parseable version, and
\* nothing when no suffix parses; heads with another suffix are left out.
C19_AsStated ==
    (fnRet.op = "seq_branches_to_sync" /\ fnArgs.want /\ fnRet.net) =>
        /\ fnRet.exc = ""
        /\ IF ParseableReleaseHeads = {}
           THEN fnRet.value = <<fnArgs.branch>>
           ELSE /\ Len(fnRet.value) = 2
                /\ fnRet.value[1] = fnArgs.branch
                /\ fnRet.value[2] \in ParseableReleaseHeads
                /\ \A h \in ParseableReleaseHeads :
                    ~semver_less(semver_key(Suffix(fnRet.value[2])), semver_key(Suffix(h)))

----------------------------------------------------------------------------
(* Claims about the git commands of both variants, checked under FnSpec *)

\* the git commands that write no ref of a remote
ReadOnlyCommands ==
    {"clone", "fetch", "ls-remote", "branch", "checkout", "checkout -B", "pull",
     "tag", "rev-parse", "rev-list", "log"}

\* C21: no call of a function that runs git changes the remote (its heads,
\* its HEAD, its tags), and every git command a call issues is one of
\* clone, fetch, ls-remote, branch, checkout, pull, tag listing, rev-parse,
\* rev-list and log.
C21_RemoteReadOnly ==
    [][remote' = remote /\ fnRet'.cmds \subseteq ReadOnlyCommands]_vars

\* C21 witness: a checkout with a pull has moved a local branch of the
\* mirror up to the remote's head, which is where it was
C21_Witness ==
    /\ fnRet.op \in FnCheckoutOps
    /\ fnRet.exc = ""
    /\ "pull" \in fnRet.cmds
    /\ mirror[FN].locals[fnArgs.branch] = remote[FN].heads[fnArgs.branch]
    /\ remote[FN].heads = Heads(FnBranchNames, BR_MAIN)

----------------------------------------------------------------------------
(* Claims about the result map, checked under Spec *)

\* the names a step adds to the result map
Written == DOMAIN results' \ DOMAIN results

\* C22: a step never removes or changes an entry of the result map; it
\* adds at most one, during the join only, for a repository whose task has
\* returned, with that task's RepoState; once the join is over the keys are
\* the names of the repositories whose task returned.
C22_ResultsWrittenOnce ==
    /\ [][/\ \A n \in DOMAIN results :
                n \in DOMAIN results' /\ results'[n] = results[n]
          /\ Cardinality(Written) <= 1
          /\ \A n \in Written :
                /\ mainpc = "collect"
                /\ pc[n] = "Done"
                /\ results'[n] = state[n]]_vars
    /\ [](mainpc \notin {"prompt", "collect", "idle"} =>
            DOMAIN results = {n \in Names : pc[n] = "Done"})

\* C22 witness: the report is being rendered; the map holds the entries of
\* the tasks that returned and none for the one that failed
C22_Witness ==
    /\ mainpc = "logs"
    /\ DOMAIN results # {}
    /\ \E f \in Names : pc[f] = "Failed" /\ DOMAIN results = Names \ {f}
    /\ \A n \in DOMAIN results : results[n] = state[n]

----------------------------------------------------------------------------
(* Claims about the checkout step of both variants, checked under FnSpec *)

\* C23 as stated: when no git command fails, the checkout step runs
\* `checkout -B B origin/B` exactly when no local branch is named B, and
\* `checkout B` with `pull` exactly when one is; afterwards B is checked out.
C23_AsStated ==
    (fnRet.op \in FnCheckoutOps /\ fnRet.net) =>
        LET present == fnArgs.branch \in fnArgs.locals
        IN  /\ ("checkout -B" \in fnRet.cmds) <=> ~present
            /\ ({"checkout", "pull"} \subseteq fnRet.cmds) <=> present
            /\ mirror[FN].HEAD = fnArgs.branch

----------------------------------------------------------------------------
(* Claims about a failed remote-head query, checked under FnSpec *)

\* C24: in the parallel variant a failed remote-head query does not raise
\* and leaves remote and mirror as they were; the branches to synchronise are
\* then the default branch alone, whatever heads the remote has.
C24_QueryFailureSwallowed ==
    [][(fnRet'.op = "branches_to_sync" /\ fnRet # fnRet' /\ ~fnRet'.net) =>
            /\ fnRet'.exc = ""
            /\ fnRet'.value = <<fnArgs.branch>>
            /\ mirror' = mirror
            /\ remote' = remote
            /\ ~branch_exists(remote[FN], FALSE, chore_name(fnArgs.ver))]_vars

C24_Witness ==
    /\ fnRet.op = "branches_to_sync"
    /\ ~fnRet.net
    /\ chore_name(fnArgs.ver) \in DOMAIN remote[FN].heads
    /\ chore_name(fnArgs.ver) # fnArgs.branch
    /\ fnRet.exc = ""
    /\ fnRet.value = <<fnArgs.branch>>

----------------------------------------------------------------------------
(* Termination of the parallel run, checked under LiveSpec *)

\* C25: once the tasks are submitted, every repository's task ends in Done
\* or Failed and stays there, and the latest-tags summary is printed. A task
\* that has not ended can always take its next step, whatever state the other
\* tasks are in, so no task waits for another.
C25_Termination ==
    /\ \A n \in Names : (mainpc # "prompt") ~> [](pc[n] \in Terminal)
    /\ (mainpc # "prompt") ~> SummaryPrinted
    /\ [](\A n \in Names : (mainpc # "prompt" /\ pc[n] \notin Terminal) => ENABLED Task(n))

C25_Witness ==
    /\ SummaryPrinted
    /\ \E n \in Names : pc[n] = "Failed" /\ mirror[n].kind = "repo"
    /\ \E n \in Names : pc[n] = "Done" /\ n \in DOMAIN results
    /\ AllTerminal

====
